---------------------------- MODULE Spec2Model ----------------------------
(***************************************************************************)
(* A model of the music-theory engine of my-chord-app:                     *)
(*   - the pitch model and the chord theory tables (lib/music-theory.ts),  *)
(*   - the identity codec formatChordName / parseChordNameToIdentity,      *)
(*   - the chord detection engine analyzeChord (lib/chord-detection.ts).   *)
(*                                                                         *)
(* Conventions.                                                            *)
(*   Note names and interval labels are strings.  The flat sign of the     *)
(*   interval labels is written "b" ("b3" is the minor third, "bb7" the    *)
(*   diminished seventh); "#5" is written as in the source.                *)
(*   A text that the code takes apart character by character (a chord      *)
(*   name given to the parser) is a sequence of one-character strings; the *)
(*   degree sign is the character "deg", the slashed o is "hdim".          *)
(*   JavaScript arrays are sequences read with 0-based indexes through     *)
(*   At0 and IndexOf.  Where the code has a string or undefined/null, the  *)
(*   model has a string or "undefined"/"null"; where it has an object or   *)
(*   null, the model has <<object>> or <<>> (Some and None).               *)
(***************************************************************************)
EXTENDS Integers, Sequences, FiniteSets, TLC

VARIABLES
    chordName,    \* codec: the chord name last produced or typed (characters)
    identity,     \* codec: Some (root, quality) the name was formatted from, or None
    parsed,       \* codec: what parseChordNameToIdentity returned for chordName
    note,         \* pitch model: the note last given to transposeNote
    semitones,    \* pitch model: the offset last given to transposeNote
    transposed,   \* pitch model: what transposeNote returned
    inputNotes,   \* detection: the note list given to analyzeChord
    analysis,     \* detection: the ChordAnalysisResult of that call
    baseNotes,    \* detection: the note list the current one was derived from
    baseAnalysis, \* detection: the ChordAnalysisResult of the base list
    quick,        \* detection: what quickDetectChord returned for inputNotes
    valid,        \* detection: what isValidChord returned for inputNotes
    fn,           \* theory: the function of music-theory.ts that is called
    args,         \* theory: its arguments
    returned,     \* theory: what it returned
    initialized,  \* manager: ChordManager.initialized
    chords,       \* manager: ChordService.chords, the Map from id to Chord
    stored,       \* manager: the records of the object store 'chords', by id
    storedSets,   \* manager: the records of the object store 'chordSets', by id
    clock,        \* manager: the time new Date() gives next
    nextId,       \* manager: the id uuidv4() gives next
    lastCall,     \* manager: the last call of the manager and how it ended
    exported,     \* manager: Some JSON the last exportData returned, or None
    pending,      \* manager: the calls that have started and not yet returned
    phase         \* "input": the arguments are chosen; "name": a chord name is
                  \* there to parse; "edited": another list is made of the
                  \* one analysed; "output", "quick", "valid", "compared":
                  \* the call has returned

vars == <<chordName, identity, parsed, note, semitones, transposed,
          inputNotes, analysis, baseNotes, baseAnalysis, quick, valid,
          fn, args, returned,
          initialized, chords, stored, storedSets, clock, nextId, lastCall,
          exported, pending, phase>>

codecVars  == <<chordName, identity, parsed>>
pitchVars  == <<note, semitones, transposed>>
detectVars == <<inputNotes, analysis, baseNotes, baseAnalysis, quick, valid>>
theoryVars == <<fn, args, returned>>
managerVars == <<initialized, chords, stored, storedSets, clock, nextId, lastCall,
                 exported, pending>>

(***************************************************************************)
(* Bounds of the model.                                                    *)
(***************************************************************************)
\* largest number of distinct pitch classes in a note list given to analyzeChord
MaxNotes == 4
\* largest number of notes of a list that is given again in another form
MaxVariantNotes == 3
\* largest number of tokens of a list given to quickDetectChord and isValidChord
MaxTokens == 2
\* the offsets given to transposeNote range over -MaxSemitones .. MaxSemitones
MaxSemitones == 135
\* largest number of notes of a list given to generateInversions
MaxInversionNotes == 3
\* largest number of notes of a list given to findCompatibleScales
MaxScaleNotes == 3
\* the manager creates at most MaxIds chords and chord sets
MaxIds == 2
\* the manager reads the time at most MaxClock times
MaxClock == 2
\* largest number of chords, and of chord sets, of an imported payload
MaxImported == 1
\* largest number of chords of an analysed progression
MaxProgression == 4
\* largest number of calls of the manager that are in flight together
MaxCalls == 2

(***************************************************************************)
(* JavaScript primitives.                                                  *)
(***************************************************************************)
Null == "null"
Undefined == "undefined"
None == <<>>
Some(x) == <<x>>

\* Array.prototype.indexOf: the 0-based index of the first x, or -1
IndexOf(seq, x) ==
    LET hits == {i \in 1..Len(seq) : seq[i] = x}
    IN  IF hits = {} THEN -1
        ELSE (CHOOSE i \in hits : \A j \in hits : i <= j) - 1

\* Array.prototype.includes
Includes(seq, x) == \E i \in 1..Len(seq) : seq[i] = x

\* seq[i] with a 0-based index: undefined outside the array
At0(seq, i) == IF i >= 0 /\ i < Len(seq) THEN seq[i + 1] ELSE Undefined

\* the % operator: the remainder has the sign of the dividend
JsRem(a, b) == IF a >= 0 THEN a % b ELSE -((-a) % b)

\* the elements of a sequence
Range(seq) == {seq[i] : i \in 1..Len(seq)}

(***************************************************************************)
(* Pitch model and chord theory tables: music-theory.ts                    *)
(***************************************************************************)
CHROMATIC_NOTES == <<"C", "C#", "D", "D#", "E", "F", "F#", "G", "G#", "A", "A#", "B">>
FLAT_NOTES      == <<"C", "Db", "D", "Eb", "E", "F", "Gb", "G", "Ab", "A", "Bb", "B">>

\* the type Note: the 12 sharp-spelled and the 5 flat-spelled names
Note == {"C", "C#", "Db", "D", "D#", "Eb", "E", "F",
         "F#", "Gb", "G", "G#", "Ab", "A", "A#", "Bb", "B"}

\* Object.entries(ENHARMONIC_MAP), in insertion order: <<key, array>>
ENHARMONIC_MAP ==
    << <<"C#", <<"Db">> >>, <<"Db", <<"C#">> >>,
       <<"D#", <<"Eb">> >>, <<"Eb", <<"D#">> >>,
       <<"F#", <<"Gb">> >>, <<"Gb", <<"F#">> >>,
       <<"G#", <<"Ab">> >>, <<"Ab", <<"G#">> >>,
       <<"A#", <<"Bb">> >>, <<"Bb", <<"A#">> >> >>

\* Object.keys(CHORD_INTERVALS), in insertion order
ALL_QUALITIES ==
    <<"major", "minor", "diminished", "augmented", "major7", "minor7",
      "dominant7", "diminished7", "half-diminished7", "major9", "minor9",
      "dominant9", "sus2", "sus4", "add9", "add11", "add13">>

ChordQuality == Range(ALL_QUALITIES)

CHORD_INTERVALS ==
    [q \in ChordQuality |->
        CASE q = "major"            -> <<"1", "3", "5">>
          [] q = "minor"            -> <<"1", "b3", "5">>
          [] q = "diminished"       -> <<"1", "b3", "b5">>
          [] q = "augmented"        -> <<"1", "3", "#5">>
          [] q = "major7"           -> <<"1", "3", "5", "7">>
          [] q = "minor7"           -> <<"1", "b3", "5", "b7">>
          [] q = "dominant7"        -> <<"1", "3", "5", "b7">>
          [] q = "diminished7"      -> <<"1", "b3", "b5", "bb7">>
          [] q = "half-diminished7" -> <<"1", "b3", "b5", "b7">>
          [] q = "major9"           -> <<"1", "3", "5", "7", "9">>
          [] q = "minor9"           -> <<"1", "b3", "5", "b7", "9">>
          [] q = "dominant9"        -> <<"1", "3", "5", "b7", "9">>
          [] q = "sus2"             -> <<"1", "2", "5">>
          [] q = "sus4"             -> <<"1", "4", "5">>
          [] q = "add9"             -> <<"1", "3", "5", "9">>
          [] q = "add11"            -> <<"1", "3", "5", "11">>
          [] q = "add13"            -> <<"1", "3", "5", "13">>]

\* the own properties of the `mapping` object literal of intervalToSemitones
TheoryIntervalMapping ==
    ("1" :> 0) @@ ("b2" :> 1) @@ ("2" :> 2) @@ ("b3" :> 3) @@ ("3" :> 4) @@
    ("4" :> 5) @@ ("#5" :> 8) @@ ("b5" :> 6) @@ ("5" :> 7) @@ ("b6" :> 8) @@
    ("6" :> 9) @@ ("b7" :> 10) @@ ("7" :> 11) @@ ("bb7" :> 9) @@
    ("9" :> 14) @@ ("b9" :> 13) @@ ("#9" :> 15) @@ ("11" :> 17) @@
    ("#11" :> 18) @@ ("13" :> 21) @@ ("b13" :> 20)

\* mapping[interval] || 0: an absent label, and a label mapped to 0, give 0
TheoryIntervalLabels == DOMAIN TheoryIntervalMapping

intervalToSemitones(interval) ==
    IF interval \in TheoryIntervalLabels /\ TheoryIntervalMapping[interval] # 0
    THEN TheoryIntervalMapping[interval]
    ELSE 0

getSemitoneDistance(note1, note2) ==
    LET index1 == IndexOf(CHROMATIC_NOTES, note1)
        index2 == IndexOf(CHROMATIC_NOTES, note2)
    IN  JsRem(index2 - index1 + 12, 12)

\* a faulty variant of transposeNote: the flat branch looks the result up in FLAT_NOTES
transposeNoteKeepFlat(n, s) ==
    LET index == IndexOf(CHROMATIC_NOTES, n)
        flatIndex == IndexOf(FLAT_NOTES, n)
    IN  IF index = -1
        THEN IF flatIndex = -1 THEN n
             ELSE At0(FLAT_NOTES, JsRem(flatIndex + s + 120, 12))
        ELSE At0(CHROMATIC_NOTES, JsRem(index + s + 120, 12))

transposeNote(n, s) ==
    LET index == IndexOf(CHROMATIC_NOTES, n)
        flatIndex == IndexOf(FLAT_NOTES, n)
    IN  IF index = -1
        THEN IF flatIndex = -1 THEN n
             ELSE At0(CHROMATIC_NOTES, JsRem(flatIndex + s + 120, 12))
        ELSE At0(CHROMATIC_NOTES, JsRem(index + s + 120, 12))

\* a faulty variant of generateChordNotes: the first note is the root as it was given
generateChordNotesKeepRoot(root, quality) ==
    LET intervals == CHORD_INTERVALS[quality]
    IN  [i \in 1..Len(intervals) |->
            IF i = 1 THEN root
            ELSE transposeNote(root, intervalToSemitones(intervals[i]))]

generateChordNotes(root, quality) ==
    LET intervals == CHORD_INTERVALS[quality]
    IN  [i \in 1..Len(intervals) |-> transposeNote(root, intervalToSemitones(intervals[i]))]

\* a faulty variant of generateInversions: the list is rotated to the right
generateInversionsRight(notes) ==
    [k \in 1..Len(notes) |->
        SubSeq(notes, Len(notes) - k + 2, Len(notes)) \o SubSeq(notes, 1, Len(notes) - k + 1)]

\* notes.slice(i) followed by notes.slice(0, i), for each index i of notes
generateInversions(notes) ==
    [k \in 1..Len(notes) |->
        SubSeq(notes, k, Len(notes)) \o SubSeq(notes, 1, k - 1)]

\* Object.keys(SCALE_PATTERNS), in the order of the object literal
ALL_SCALES ==
    <<"major", "natural_minor", "harmonic_minor", "melodic_minor", "dorian",
      "phrygian", "lydian", "mixolydian", "locrian", "pentatonic_major",
      "pentatonic_minor", "blues">>

SCALE_PATTERNS ==
    [scale \in Range(ALL_SCALES) |->
        CASE scale = "major"            -> <<0, 2, 4, 5, 7, 9, 11>>
          [] scale = "natural_minor"    -> <<0, 2, 3, 5, 7, 8, 10>>
          [] scale = "harmonic_minor"   -> <<0, 2, 3, 5, 7, 8, 11>>
          [] scale = "melodic_minor"    -> <<0, 2, 3, 5, 7, 9, 11>>
          [] scale = "dorian"           -> <<0, 2, 3, 5, 7, 9, 10>>
          [] scale = "phrygian"         -> <<0, 1, 3, 5, 7, 8, 10>>
          [] scale = "lydian"           -> <<0, 2, 4, 6, 7, 9, 11>>
          [] scale = "mixolydian"       -> <<0, 2, 4, 5, 7, 9, 10>>
          [] scale = "locrian"          -> <<0, 1, 3, 5, 6, 8, 10>>
          [] scale = "pentatonic_major" -> <<0, 2, 4, 7, 9>>
          [] scale = "pentatonic_minor" -> <<0, 3, 5, 7, 10>>
          [] scale = "blues"            -> <<0, 3, 5, 6, 7, 10>>]

\* the numerals, each a sequence of characters; "deg" is the degree sign
MAJOR_KEY_NUMERALS ==
    << <<"I">>, <<"i", "i">>, <<"i", "i", "i">>, <<"I", "V">>, <<"V">>,
       <<"v", "i">>, <<"v", "i", "i", "deg">> >>

MINOR_KEY_NUMERALS ==
    << <<"i">>, <<"i", "i", "deg">>, <<"I", "I", "I">>, <<"i", "v">>, <<"v">>,
       <<"V", "I">>, <<"V", "I", "I">> >>

\* String.prototype.toLowerCase and toUpperCase on the characters of a numeral
ToLowerCase(chars) ==
    [i \in 1..Len(chars) |->
        CASE chars[i] = "I" -> "i" [] chars[i] = "V" -> "v" [] OTHER -> chars[i]]

ToUpperCase(chars) ==
    [i \in 1..Len(chars) |->
        CASE chars[i] = "i" -> "I" [] chars[i] = "v" -> "V" [] OTHER -> chars[i]]

generateScale(key, scale) ==
    LET pattern == SCALE_PATTERNS[scale]
    IN  [i \in 1..Len(pattern) |-> transposeNote(key, pattern[i])]

\* a faulty variant of AdjustNumeral: every seventh chord gets its 7
AdjustNumeralEverySeventh(numeral, chordQuality) ==
    IF chordQuality = "major7" THEN ToUpperCase(numeral) \o <<"7">>
    ELSE IF chordQuality = "minor7" THEN ToLowerCase(numeral) \o <<"7">>
    ELSE IF chordQuality = "dominant7" THEN numeral \o <<"7">>
    ELSE numeral

\* the numeral adjusted for the chord quality
AdjustNumeral(numeral, chordQuality) ==
    IF chordQuality = "major7" /\ ToLowerCase(numeral) = numeral
    THEN ToUpperCase(numeral) \o <<"7">>
    ELSE IF chordQuality = "minor7" /\ ToUpperCase(numeral) = numeral
    THEN ToLowerCase(numeral) \o <<"7">>
    ELSE IF chordQuality = "dominant7"
    THEN numeral \o <<"7">>
    ELSE numeral

\* getRomanNumeral once the index of the root in the scale is found;
\* returns Some numeral, or None for null
NumeralAt(rootIndex, chordQuality, isMinorKey) ==
    IF rootIndex = -1 THEN None
    ELSE Some(AdjustNumeral(
            At0(IF isMinorKey THEN MINOR_KEY_NUMERALS ELSE MAJOR_KEY_NUMERALS, rootIndex),
            chordQuality))

getRomanNumeral(chordRoot, chordQuality, key, isMinorKey) ==
    NumeralAt(IndexOf(generateScale(key, IF isMinorKey THEN "natural_minor" ELSE "major"),
                      chordRoot),
              chordQuality, isMinorKey)

\* commonTones.length / chordNotes.length as the pair of the two lengths:
\* the fraction num / den, which is NaN when chordNotes is empty
AtLeastThreeQuarters(compatibility) ==
    compatibility.den # 0 /\ 4 * compatibility.num >= 3 * compatibility.den

\* what findCompatibleScales computes for one key and one scale
ScaleCandidate(chordNotes, key, scaleName) ==
    [scale |-> scaleName,
     key |-> key,
     compatibility |->
         [num |-> Len(SelectSeq(chordNotes,
                                LAMBDA n : Includes(generateScale(key, scaleName), n))),
          den |-> Len(chordNotes)],
     commonTones |-> SelectSeq(chordNotes,
                               LAMBDA n : Includes(generateScale(key, scaleName), n))]

\* the forEach over CHROMATIC_NOTES and, inside it, over the entries of
\* SCALE_PATTERNS: the candidates in the order they are computed
ScaleCandidates(chordNotes) ==
    [k \in 1..(Len(CHROMATIC_NOTES) * Len(ALL_SCALES)) |->
        ScaleCandidate(chordNotes,
                       CHROMATIC_NOTES[((k - 1) \div Len(ALL_SCALES)) + 1],
                       ALL_SCALES[((k - 1) % Len(ALL_SCALES)) + 1])]

\* the compatibilities with num common tones, then those with fewer
RECURSIVE ByCommonTonesFrom(_, _)
ByCommonTonesFrom(compatibilities, num) ==
    IF num < 0 THEN <<>>
    ELSE SelectSeq(compatibilities, LAMBDA c : c.compatibility.num = num)
         \o ByCommonTonesFrom(compatibilities, num - 1)

\* compatibilities.sort((a, b) => b.compatibility - a.compatibility): the
\* sort is stable, and all the fractions of one call have the same
\* denominator
SortByCompatibility(compatibilities, den) ==
    ByCommonTonesFrom(compatibilities, den)

findCompatibleScales(chordNotes) ==
    SortByCompatibility(
        SelectSeq(ScaleCandidates(chordNotes),
                  LAMBDA c : AtLeastThreeQuarters(c.compatibility)),
        Len(chordNotes))

RECURSIVE Flat(_)
Flat(lists) == IF lists = <<>> THEN <<>> ELSE Head(lists) \o Flat(Tail(lists))

\* a faulty variant of QualityCandidates: the root is sought above the note
QualityCandidatesAbove(n, quality) ==
    LET intervals == CHORD_INTERVALS[quality]
    IN  [i \in 1..Len(intervals) |->
            [root |-> transposeNote(n, intervalToSemitones(intervals[i])),
             quality |-> quality]]

\* the inner loop of findChordsByNote: one candidate per interval of the quality
QualityCandidates(n, quality) ==
    LET intervals == CHORD_INTERVALS[quality]
    IN  [i \in 1..Len(intervals) |->
            [root |-> transposeNote(n, 0 - intervalToSemitones(intervals[i])),
             quality |-> quality]]

findChordsByNote(n) ==
    Flat([k \in 1..Len(ALL_QUALITIES) |-> QualityCandidates(n, ALL_QUALITIES[k])])

\* an extension: its name as written in the source, its notes and its labels
ChordExtension(name, root, quality) ==
    [name |-> name,
     notes |-> generateChordNotes(root, quality),
     intervals |-> CHORD_INTERVALS[quality]]

suggestChordExtensions(root, currentQuality) ==
    IF currentQuality = "major"
    THEN <<ChordExtension("maj7", root, "major7"), ChordExtension("add9", root, "add9")>>
    ELSE IF currentQuality = "minor"
    THEN <<ChordExtension("m7", root, "minor7"), ChordExtension("add9", root, "add9")>>
    ELSE <<>>

\* chord.match(/^([A-G][#b]?)/)?.[1] on the characters of a chord name
MatchRoot(chord) ==
    IF chord = <<>> \/ chord[1] \notin {"A", "B", "C", "D", "E", "F", "G"} THEN None
    ELSE IF Len(chord) > 1 /\ chord[2] \in {"#", "b"} THEN Some(SubSeq(chord, 1, 2))
    ELSE Some(SubSeq(chord, 1, 1))

\* rootCounts after the loop, as Object.entries lists it: one entry per
\* root, in the order the roots were first seen
RECURSIVE CountRoots(_, _)
CountRoots(progression, entries) ==
    IF progression = <<>> THEN entries
    ELSE LET root == MatchRoot(Head(progression))
             seen == {i \in 1..Len(entries) : Some(entries[i][1]) = root}
         IN  CountRoots(Tail(progression),
                 IF root = None THEN entries
                 ELSE IF seen = {} THEN Append(entries, <<root[1], 1>>)
                 ELSE [i \in 1..Len(entries) |->
                          IF i \in seen THEN <<entries[i][1], entries[i][2] + 1>>
                          ELSE entries[i]])

\* a faulty variant of SortByCount: of equal counts the later entry comes first
SortByCountLatest(entries) ==
    LET Before(i, j) ==
            entries[i][2] > entries[j][2] \/ (entries[i][2] = entries[j][2] /\ i > j)
        Rank(i) == Cardinality({j \in 1..Len(entries) : Before(j, i)})
    IN  [k \in 1..Len(entries) |->
            entries[CHOOSE i \in 1..Len(entries) : Rank(i) = k - 1]]

\* .sort(([,a], [,b]) => b - a): by count, greatest first; the sort is
\* stable, so entries of equal count keep their order
SortByCount(entries) ==
    LET Before(i, j) ==
            entries[i][2] > entries[j][2] \/ (entries[i][2] = entries[j][2] /\ i < j)
        Rank(i) == Cardinality({j \in 1..Len(entries) : Before(j, i)})
    IN  [k \in 1..Len(entries) |->
            entries[CHOOSE i \in 1..Len(entries) : Rank(i) = k - 1]]

analyzeKey(progression) ==
    LET sorted == SortByCount(CountRoots(progression, <<>>))
    IN  IF sorted = <<>> THEN None ELSE Some(sorted[1][1])

\* the progression and the key of the analysis
analyzeChordProgression(parsedChords) ==
    LET progression == [i \in 1..Len(parsedChords) |-> parsedChords[i].name]
    IN  [progression |-> progression, key |-> analyzeKey(progression)]

(***************************************************************************)
(* Identity codec: music-theory.ts                                         *)
(***************************************************************************)
\* the characters of each note name
Spell ==
    [n \in Note |->
        CASE n = "C"  -> <<"C">>       [] n = "C#" -> <<"C", "#">>
          [] n = "Db" -> <<"D", "b">>  [] n = "D"  -> <<"D">>
          [] n = "D#" -> <<"D", "#">>  [] n = "Eb" -> <<"E", "b">>
          [] n = "E"  -> <<"E">>       [] n = "F"  -> <<"F">>
          [] n = "F#" -> <<"F", "#">>  [] n = "Gb" -> <<"G", "b">>
          [] n = "G"  -> <<"G">>       [] n = "G#" -> <<"G", "#">>
          [] n = "Ab" -> <<"A", "b">>  [] n = "A"  -> <<"A">>
          [] n = "A#" -> <<"A", "#">>  [] n = "Bb" -> <<"B", "b">>
          [] n = "B"  -> <<"B">>]

\* the characters of each display suffix; "deg" is the degree sign and
\* "hdim" the slashed o, one character each
QUALITY_SUFFIX_MAP ==
    [q \in ChordQuality |->
        CASE q = "major"            -> <<>>
          [] q = "minor"            -> <<"m">>
          [] q = "diminished"       -> <<"deg">>
          [] q = "augmented"        -> <<"+">>
          [] q = "major7"           -> <<"m", "a", "j", "7">>
          [] q = "minor7"           -> <<"m", "7">>
          [] q = "dominant7"        -> <<"7">>
          [] q = "diminished7"      -> <<"deg", "7">>
          [] q = "half-diminished7" -> <<"hdim", "7">>
          [] q = "major9"           -> <<"m", "a", "j", "9">>
          [] q = "minor9"           -> <<"m", "9">>
          [] q = "dominant9"        -> <<"9">>
          [] q = "sus2"             -> <<"s", "u", "s", "2">>
          [] q = "sus4"             -> <<"s", "u", "s", "4">>
          [] q = "add9"             -> <<"a", "d", "d", "9">>
          [] q = "add11"            -> <<"a", "d", "d", "1", "1">>
          [] q = "add13"            -> <<"a", "d", "d", "1", "3">>]

\* the own properties of the SUFFIX_TO_QUALITY object literal: <<key, value>>
SUFFIX_TO_QUALITY ==
    { << <<>>, "major" >>,
      << <<"m">>, "minor" >>,
      << <<"deg">>, "diminished" >>,
      << <<"d", "i", "m">>, "diminished" >>,
      << <<"+">>, "augmented" >>,
      << <<"a", "u", "g">>, "augmented" >>,
      << <<"m", "a", "j", "7">>, "major7" >>,
      << <<"m", "7">>, "minor7" >>,
      << <<"7">>, "dominant7" >>,
      << <<"deg", "7">>, "diminished7" >>,
      << <<"d", "i", "m", "7">>, "diminished7" >>,
      << <<"hdim", "7">>, "half-diminished7" >>,
      << <<"m", "a", "j", "9">>, "major9" >>,
      << <<"m", "9">>, "minor9" >>,
      << <<"9">>, "dominant9" >>,
      << <<"s", "u", "s", "2">>, "sus2" >>,
      << <<"s", "u", "s", "4">>, "sus4" >>,
      << <<"a", "d", "d", "9">>, "add9" >>,
      << <<"a", "d", "d", "1", "1">>, "add11" >>,
      << <<"a", "d", "d", "1", "3">>, "add13" >> }

SuffixKeys == {e[1] : e \in SUFFIX_TO_QUALITY}

\* An object literal inherits the properties of Object.prototype, so a
\* property read with one of these keys gives a function, never undefined.
ObjectPrototypeKeys ==
    { <<"c", "o", "n", "s", "t", "r", "u", "c", "t", "o", "r">>,
      <<"t", "o", "S", "t", "r", "i", "n", "g">>,
      <<"v", "a", "l", "u", "e", "O", "f">> }

\* SUFFIX_TO_QUALITY[suffix]: the own property, else the inherited one
\* (a function, written "[Function]"), else undefined
SuffixLookup(suffix) ==
    IF suffix \in SuffixKeys
    THEN (CHOOSE e \in SUFFIX_TO_QUALITY : e[1] = suffix)[2]
    ELSE IF suffix \in ObjectPrototypeKeys
         THEN "[Function]"
         ELSE Undefined

formatChordName(root, quality) == Spell[root] \o QUALITY_SUFFIX_MAP[quality]

\* characters that `.` does not match
LineTerminators == {"\n", "\r"}

\* name.match(/^([A-G][#b]?)(.*)$/): null, or the two groups.  The optional
\* accidental is taken whenever it is there: giving it back to `.*` never
\* turns a failed match into a match.
MatchRootAndSuffix(name) ==
    IF name = <<>> \/ name[1] \notin {"A", "B", "C", "D", "E", "F", "G"}
       \/ (\E i \in 2..Len(name) : name[i] \in LineTerminators)
    THEN None
    ELSE IF Len(name) >= 2 /\ name[2] \in {"#", "b"}
         THEN <<SubSeq(name, 1, 2), SubSeq(name, 3, Len(name))>>
         ELSE <<SubSeq(name, 1, 1), SubSeq(name, 2, Len(name))>>

\* the note of a list that is spelled rootStr, for a rootStr the list includes
NoteSpelled(rootStr) == CHOOSE n \in Note : Spell[n] = rootStr

IncludesSpelled(seq, rootStr) == \E i \in 1..Len(seq) : Spell[seq[i]] = rootStr

\* a faulty variant of parseChordNameToIdentity: a flat root is returned sharp-spelled
parseNormalizingFlats(name) ==
    LET match == MatchRootAndSuffix(name)
        rootStr == match[1]
        suffix == match[2]
        quality == SuffixLookup(suffix)
        found == IF IncludesSpelled(FLAT_NOTES, rootStr)
                 THEN CHROMATIC_NOTES[IndexOf(FLAT_NOTES, NoteSpelled(rootStr)) + 1]
                 ELSE IF IncludesSpelled(CHROMATIC_NOTES, rootStr)
                      THEN NoteSpelled(rootStr) ELSE Null
    IN  IF match = None \/ found = Null THEN None
        ELSE IF quality = Undefined
             THEN IF suffix \in {<<"m", "i", "n">>, <<"m", "i", "n", "o", "r">>}
                  THEN Some([root |-> found, quality |-> "minor"])
                  ELSE IF suffix \in {<<"m", "a", "j">>, <<"m", "a", "j", "o", "r">>}
                       THEN Some([root |-> found, quality |-> "major"])
                       ELSE None
             ELSE Some([root |-> found, quality |-> quality])

parseChordNameToIdentity(name) ==
    LET match == MatchRootAndSuffix(name)
        rootStr == match[1]
        suffix == match[2]
        \* lines 192-205: the root, or null
        root == IF Includes(rootStr, "b") /\ Len(rootStr) = 2
                THEN LET flatNote == <<rootStr[1], "b">>
                     IN  IF IncludesSpelled(CHROMATIC_NOTES, flatNote)
                            \/ IncludesSpelled(FLAT_NOTES, flatNote)
                         THEN NoteSpelled(flatNote) ELSE Null
                ELSE IF IncludesSpelled(CHROMATIC_NOTES, rootStr)
                     THEN NoteSpelled(rootStr) ELSE Null
        quality == SuffixLookup(suffix)
    IN  IF match = None THEN None
        ELSE IF root = Null THEN None
        ELSE IF quality = Undefined   \* !quality: every other value is truthy
             THEN IF suffix = <<"m", "i", "n">> \/ suffix = <<"m", "i", "n", "o", "r">>
                  THEN Some([root |-> root, quality |-> "minor"])
                  ELSE IF suffix = <<"m", "a", "j">> \/ suffix = <<"m", "a", "j", "o", "r">>
                       THEN Some([root |-> root, quality |-> "major"])
                       ELSE IF suffix = <<>>
                            THEN Some([root |-> root, quality |-> "major"])
                            ELSE None
             ELSE Some([root |-> root, quality |-> quality])

(***************************************************************************)
(* Confidence arithmetic: chord-detection.ts computes the confidence of a  *)
(* match as  matches / n * 0.7^j * 0.95^e  and  * 0.9  for a slash chord.  *)
(* The model computes that product exactly: a confidence is                *)
(*     num / ConfUnit * (19/20)^ext                                        *)
(* with num an integer.  n is 3, 4 or 5, j is at most 2 (no quality holds  *)
(* both thirds), so every num below is a whole number of units.  The       *)
(* products of the code are doubles; they differ from the exact products   *)
(* by rounding only, which no comparison below is close enough to feel:    *)
(* 0.3 and 0.4 are not values of the product, and two products that are    *)
(* equal are ordered by the stable sort, in the order they were found.     *)
(***************************************************************************)
ConfUnit == 60 * 1000

ConfRatio(m, n) == [num |-> (ConfUnit * m) \div n, ext |-> 0]
ConfTimes07(c) == [c EXCEPT !.num = (@ * 7) \div 10]
\* a faulty variant of ConfTimes09: the confidence is kept as it is
ConfKept(c) == c
ConfTimes09(c) == [c EXCEPT !.num = (@ * 9) \div 10]
ConfTimesPow095(c, k) == [c EXCEPT !.ext = @ + k]
ConfOne == ConfRatio(1, 1)

\* natural numbers of any size, as base-10000 digits, least significant first
BigBase == 10 * 1000

RECURSIVE BigOfInt(_)
BigOfInt(n) == IF n = 0 THEN <<>> ELSE <<n % BigBase>> \o BigOfInt(n \div BigBase)

RECURSIVE BigTimes(_, _, _)
BigTimes(x, m, carry) ==
    IF x = <<>> THEN BigOfInt(carry)
    ELSE LET p == Head(x) * m + carry
         IN  <<p % BigBase>> \o BigTimes(Tail(x), m, p \div BigBase)

RECURSIVE BigTimesPow(_, _, _)
BigTimesPow(x, m, k) == IF k = 0 THEN x ELSE BigTimesPow(BigTimes(x, m, 0), m, k - 1)

RECURSIVE BigGreaterFrom(_, _, _)
BigGreaterFrom(x, y, i) ==
    IF i = 0 THEN FALSE
    ELSE IF x[i] # y[i] THEN x[i] > y[i]
    ELSE BigGreaterFrom(x, y, i - 1)

BigGreater(x, y) ==
    IF Len(x) # Len(y) THEN Len(x) > Len(y) ELSE BigGreaterFrom(x, y, Len(x))

\* x * p^k > y * q^k, for x and y up to ConfUnit and p and q up to 20: in
\* machine integers while the products stay below 2^31, in digits beyond
ProductGreater(x, p, y, q, k) ==
    IF k <= 3 THEN x * p^k > y * q^k
    ELSE BigGreater(BigTimesPow(BigOfInt(x), p, k), BigTimesPow(BigOfInt(y), q, k))

\* a > b for two confidences: both sides times 20^(the larger ext)
ConfGreater(a, b) ==
    IF a.ext >= b.ext
    THEN ProductGreater(a.num, 19, b.num, 20, a.ext - b.ext)
    ELSE ProductGreater(a.num, 20, b.num, 19, b.ext - a.ext)

(***************************************************************************)
(* Chord detection engine: chord-detection.ts                              *)
(***************************************************************************)
Whitespace == {" ", "\t", "\n", "\r"}

\* String.prototype.trim
RECURSIVE TrimStart(_)
TrimStart(chars) ==
    IF chars # <<>> /\ Head(chars) \in Whitespace THEN TrimStart(Tail(chars)) ELSE chars

RECURSIVE TrimEnd(_)
TrimEnd(chars) ==
    IF chars # <<>> /\ chars[Len(chars)] \in Whitespace
    THEN TrimEnd(SubSeq(chars, 1, Len(chars) - 1)) ELSE chars

Trim(chars) == TrimEnd(TrimStart(chars))

\* the first entry of ENHARMONIC_MAP, from entry i on, whose array includes
\* the note; its key, or null
RECURSIVE FirstEnharmonicKey(_, _)
FirstEnharmonicKey(chars, i) ==
    IF i > Len(ENHARMONIC_MAP) THEN Null
    ELSE IF IncludesSpelled(ENHARMONIC_MAP[i][2], chars) THEN ENHARMONIC_MAP[i][1]
    ELSE FirstEnharmonicKey(chars, i + 1)

\* ENHARMONIC_MAP[key], or undefined
EnharmonicsOf(key) ==
    IF \E i \in 1..Len(ENHARMONIC_MAP) : ENHARMONIC_MAP[i][1] = key
    THEN (CHOOSE e \in Range(ENHARMONIC_MAP) : e[1] = key)[2]
    ELSE <<>>

\* the first chromatic note, from note i on, whose enharmonics include the note
RECURSIVE FirstChromaticWithEnharmonic(_, _)
FirstChromaticWithEnharmonic(chars, i) ==
    IF i > Len(CHROMATIC_NOTES) THEN Null
    ELSE IF IncludesSpelled(EnharmonicsOf(CHROMATIC_NOTES[i]), chars)
         THEN CHROMATIC_NOTES[i]
         ELSE FirstChromaticWithEnharmonic(chars, i + 1)

findChromaticEquivalent(chars) ==
    IF IncludesSpelled(CHROMATIC_NOTES, chars) THEN NoteSpelled(chars)
    ELSE IF FirstEnharmonicKey(chars, 1) # Null THEN FirstEnharmonicKey(chars, 1)
    ELSE FirstChromaticWithEnharmonic(chars, 1)

\* the Set of normalizeNotes as the list of its elements in insertion order
RECURSIVE CollectNormalized(_, _)
CollectNormalized(notes, normalized) ==
    IF notes = <<>> THEN normalized
    ELSE LET cleanNote == Trim(Head(notes))
             chromaticNote == findChromaticEquivalent(cleanNote)
         IN  IF cleanNote = <<>> \/ chromaticNote = Null
                \/ Includes(normalized, chromaticNote)
             THEN CollectNormalized(Tail(notes), normalized)
             ELSE CollectNormalized(Tail(notes), Append(normalized, chromaticNote))

\* Array.prototype.sort with (a, b) => indexOf(a) - indexOf(b): a stable
\* insertion into ascending order
RECURSIVE InsertByIndex(_, _)
InsertByIndex(sorted, x) ==
    IF sorted = <<>> THEN <<x>>
    ELSE IF IndexOf(CHROMATIC_NOTES, x) - IndexOf(CHROMATIC_NOTES, Head(sorted)) < 0
         THEN <<x>> \o sorted
         ELSE <<Head(sorted)>> \o InsertByIndex(Tail(sorted), x)

RECURSIVE SortByIndex(_, _)
SortByIndex(seq, sorted) ==
    IF seq = <<>> THEN sorted
    ELSE SortByIndex(Tail(seq), InsertByIndex(sorted, Head(seq)))

\* a faulty variant of normalizeNotes: the list is not sorted
normalizeNotesUnsorted(notes) == CollectNormalized(notes, <<>>)

normalizeNotes(notes) == SortByIndex(CollectNormalized(notes, <<>>), <<>>)

resolveNoteName(root, semis) ==
    LET rootIndex == IndexOf(CHROMATIC_NOTES, root)
    IN  IF rootIndex = -1 THEN "?"
        ELSE At0(CHROMATIC_NOTES, JsRem(rootIndex + semis, 12))

\* the own properties of the `mapping` object literal of the detection
\* engine's intervalToSemitones: it has no "#5" and no "bb7"
DetectionIntervalMapping ==
    ("1" :> 0) @@ ("b2" :> 1) @@ ("2" :> 2) @@ ("b3" :> 3) @@ ("3" :> 4) @@
    ("4" :> 5) @@ ("b5" :> 6) @@ ("5" :> 7) @@ ("b6" :> 8) @@ ("6" :> 9) @@
    ("b7" :> 10) @@ ("7" :> 11) @@
    ("9" :> 14) @@ ("b9" :> 13) @@ ("#9" :> 15) @@ ("11" :> 17) @@
    ("#11" :> 18) @@ ("13" :> 21) @@ ("b13" :> 20)

DetectionIntervalLabels == DOMAIN DetectionIntervalMapping

detectionIntervalToSemitones(interval) ==
    IF interval \in DetectionIntervalLabels /\ DetectionIntervalMapping[interval] # 0
    THEN DetectionIntervalMapping[interval]
    ELSE 0

SemitonesToIntervalMapping ==
    (0 :> "1") @@ (1 :> "b2") @@ (2 :> "2") @@ (3 :> "b3") @@ (4 :> "3") @@
    (5 :> "4") @@ (6 :> "b5") @@ (7 :> "5") @@ (8 :> "b6") @@ (9 :> "6") @@
    (10 :> "b7") @@ (11 :> "7") @@
    (13 :> "b9") @@ (14 :> "9") @@ (15 :> "#9") @@ (17 :> "11") @@
    (18 :> "#11") @@ (20 :> "b13") @@ (21 :> "13")

\* mapping[semitones] || `+${semitones}`; every "+" label is written "+"
SemitonesWithLabel == DOMAIN SemitonesToIntervalMapping

semitonesToInterval(semis) ==
    IF semis \in SemitonesWithLabel
    THEN SemitonesToIntervalMapping[semis] ELSE "+"

\* Array.prototype.sort with (a, b) => a - b
RECURSIVE InsertNumber(_, _)
InsertNumber(sorted, x) ==
    IF sorted = <<>> THEN <<x>>
    ELSE IF x - Head(sorted) < 0 THEN <<x>> \o sorted
         ELSE <<Head(sorted)>> \o InsertNumber(Tail(sorted), x)

RECURSIVE SortNumbers(_, _)
SortNumbers(seq, sorted) ==
    IF seq = <<>> THEN sorted
    ELSE SortNumbers(Tail(seq), InsertNumber(sorted, Head(seq)))

calculateIntervals(notes, root) ==
    SortNumbers([i \in 1..Len(notes) |-> getSemitoneDistance(root, notes[i])], <<>>)

\* the label `${interval} (${note})` of a missing or an extra note
NoteLabel(interval, noteName) == <<interval, noteName>>

\* penalty for missing important intervals: 3, 4, 7 in turn
RECURSIVE PenalizeMissing(_, _, _, _)
PenalizeMissing(confidence, important, standardSemitones, actualIntervals) ==
    IF important = <<>> THEN confidence
    ELSE PenalizeMissing(
            IF Includes(standardSemitones, Head(important))
               /\ ~Includes(actualIntervals, Head(important))
            THEN ConfTimes07(confidence) ELSE confidence,
            Tail(important), standardSemitones, actualIntervals)

matchIntervals(actualIntervals, standardIntervals, root) ==
    LET standardSemitones ==
            [i \in 1..Len(standardIntervals) |->
                detectionIntervalToSemitones(standardIntervals[i])]
        present(i) == Includes(actualIntervals, standardSemitones[i])
        matches == Cardinality({i \in 1..Len(standardSemitones) : present(i)})
        missingAt == SelectSeq([i \in 1..Len(standardSemitones) |-> i],
                               LAMBDA i : ~present(i))
        missing == [k \in 1..Len(missingAt) |->
                       NoteLabel(standardIntervals[missingAt[k]],
                                 resolveNoteName(root, standardSemitones[missingAt[k]]))]
        extraIntervals == SelectSeq(actualIntervals,
                                    LAMBDA x : ~Includes(standardSemitones, x))
        extra == [k \in 1..Len(extraIntervals) |->
                     NoteLabel(semitonesToInterval(extraIntervals[k]),
                               resolveNoteName(root, extraIntervals[k]))]
        base == IF matches = Len(standardSemitones) /\ Len(extra) = 0
                THEN ConfOne
                ELSE ConfRatio(matches, Len(standardSemitones))
        penalized == PenalizeMissing(base, <<3, 4, 7>>, standardSemitones, actualIntervals)
        confidence == IF Len(standardSemitones) = 0 THEN ConfRatio(0, 1)
                      ELSE ConfTimesPow095(penalized, Len(extra))
    IN  [confidence |-> confidence, missingNotes |-> missing, extraNotes |-> extra]

\* the qualityMap of generateChordName, the same 17 suffixes as
\* QUALITY_SUFFIX_MAP
DetectionQualityMap ==
    [q \in ChordQuality |->
        CASE q = "major"            -> <<>>
          [] q = "minor"            -> <<"m">>
          [] q = "diminished"       -> <<"deg">>
          [] q = "augmented"        -> <<"+">>
          [] q = "major7"           -> <<"m", "a", "j", "7">>
          [] q = "minor7"           -> <<"m", "7">>
          [] q = "dominant7"        -> <<"7">>
          [] q = "diminished7"      -> <<"deg", "7">>
          [] q = "half-diminished7" -> <<"hdim", "7">>
          [] q = "major9"           -> <<"m", "a", "j", "9">>
          [] q = "minor9"           -> <<"m", "9">>
          [] q = "dominant9"        -> <<"9">>
          [] q = "sus2"             -> <<"s", "u", "s", "2">>
          [] q = "sus4"             -> <<"s", "u", "s", "4">>
          [] q = "add9"             -> <<"a", "d", "d", "9">>
          [] q = "add11"            -> <<"a", "d", "d", "1", "1">>
          [] q = "add13"            -> <<"a", "d", "d", "1", "3">>]

generateChordName(root, quality) == Spell[root] \o DetectionQualityMap[quality]

\* The interpretation records leave out `intervals` (CHORD_INTERVALS of the
\* quality) and `description` (a text made of the name and of the missing
\* and extra notes): both repeat other fields.

\* the loop of analyzeWithRoot over Object.entries(CHORD_INTERVALS): one
\* candidate per quality, in the order of the table
WithRootCandidates(intervals, root, rootIndex) ==
    [qi \in 1..Len(ALL_QUALITIES) |->
        LET quality == ALL_QUALITIES[qi]
            match == matchIntervals(intervals, CHORD_INTERVALS[quality], root)
        IN  [id |-> <<root, quality, rootIndex>>,
             name |-> generateChordName(root, quality),
             root |-> root,
             quality |-> quality,
             bassNote |-> Undefined,
             inversion |-> 0,
             confidence |-> match.confidence,
             missingNotes |-> match.missingNotes,
             extraNotes |-> match.extraNotes]]

\* a faulty variant of analyzeWithRoot: the candidates above 0.2 are pushed
analyzeWithRootAboveFifth(notes, root, rootIndex) ==
    SelectSeq(WithRootCandidates(calculateIntervals(notes, root), root, rootIndex),
              LAMBDA c : ConfGreater(c.confidence, ConfRatio(2, 10)))

\* the candidates with match.confidence > 0.3 are pushed
analyzeWithRoot(notes, root, rootIndex) ==
    SelectSeq(WithRootCandidates(calculateIntervals(notes, root), root, rootIndex),
              LAMBDA c : ConfGreater(c.confidence, ConfRatio(3, 10)))

\* the loop of analyzeSlashChord: one candidate per quality, with the
\* confidence of its match
SlashCandidates(intervals, root, bassNote) ==
    [qi \in 1..Len(ALL_QUALITIES) |->
        LET quality == ALL_QUALITIES[qi]
            match == matchIntervals(intervals, CHORD_INTERVALS[quality], root)
        IN  [id |-> <<root, quality, "slash", bassNote>>,
             name |-> generateChordName(root, quality) \o <<"/">> \o Spell[bassNote],
             root |-> root,
             quality |-> quality,
             bassNote |-> bassNote,
             inversion |-> 0,
             confidence |-> match.confidence,
             missingNotes |-> match.missingNotes,
             extraNotes |-> match.extraNotes]]

\* the candidates with match.confidence > 0.4 are pushed, with
\* confidence: match.confidence * 0.9
analyzeSlashChord(notes, root, bassNote) ==
    LET upperNotes == SelectSeq(notes, LAMBDA n : n # bassNote)
        intervals == calculateIntervals(
                        <<root>> \o SelectSeq(upperNotes, LAMBDA n : n # root), root)
        pushed == SelectSeq(SlashCandidates(intervals, root, bassNote),
                            LAMBDA c : ConfGreater(c.confidence, ConfRatio(4, 10)))
    IN  IF Len(upperNotes) < 2 THEN <<>>
        ELSE [i \in 1..Len(pushed) |->
                 [pushed[i] EXCEPT !.confidence = ConfTimes09(@)]]

\* interpretations.push(...list) for each list in turn
RECURSIVE PushAll(_)
PushAll(lists) ==
    IF lists = <<>> THEN <<>> ELSE Head(lists) \o PushAll(Tail(lists))

\* the first loop of findAllInterpretations: every note as a root
RootInterpretations(notes) ==
    PushAll([i \in 1..Len(notes) |-> analyzeWithRoot(notes, notes[i], i - 1)])

\* the nested loops of findAllInterpretations: every note as a bass, every
\* other note as a root over it
SlashInterpretations(notes) ==
    PushAll([bass \in 1..Len(notes) |->
                PushAll([root \in 1..Len(notes) |->
                            IF root = bass THEN <<>>
                            ELSE analyzeSlashChord(notes, notes[root], notes[bass])])])

findAllInterpretations(notes) ==
    RootInterpretations(notes) \o SlashInterpretations(notes)

\* the interpretations of the ranks from rank on, rank by rank
RECURSIVE ByRankFrom(_, _, _, _)
ByRankFrom(seq, rankOf, rank, ranks) ==
    IF rank >= ranks THEN <<>>
    ELSE SelectSeq(seq, LAMBDA x : rankOf[x.confidence] = rank)
         \o ByRankFrom(seq, rankOf, rank + 1, ranks)

\* Array.prototype.sort with (a, b) => b.confidence - a.confidence.  The
\* sort is stable, so its result is the one list that is descending in
\* confidence and keeps the order of equal confidences: the interpretations
\* of the greatest confidence in their order, then those of the next, ...
SortByConfidence(seq) ==
    LET confidences == {seq[i].confidence : i \in 1..Len(seq)}
        rankOf == [c \in confidences |->
                      Cardinality({d \in confidences : ConfGreater(d, c)})]
    IN  ByRankFrom(seq, rankOf, 0, Cardinality(confidences))

\* `${interpretation.name}-${interpretation.bassNote || ''}`
DuplicateKey(interp) ==
    interp.name \o <<"-">> \o
    (IF interp.bassNote = Undefined THEN <<>> ELSE Spell[interp.bassNote])

\* what unique[existingIndex] holds after the interpretations at the indices
\* later, which have its key: each replaces it when its confidence is greater
RECURSIVE KeepGreater(_, _, _)
KeepGreater(existing, interpretations, later) ==
    IF later = <<>> THEN existing
    ELSE KeepGreater(
            IF ConfGreater(interpretations[Head(later)].confidence, existing.confidence)
            THEN interpretations[Head(later)] ELSE existing,
            interpretations, Tail(later))

\* the loop of removeDuplicateInterpretations: an interpretation whose key
\* was not seen is pushed to unique; one whose key was seen replaces the
\* element of unique with that key when its confidence is greater.  When no
\* key repeats, every interpretation is pushed.
removeDuplicateInterpretations(interpretations) ==
    LET n == Len(interpretations)
        key == [i \in 1..n |-> DuplicateKey(interpretations[i])]
        indices == [i \in 1..n |-> i]
        first == SelectSeq(indices, LAMBDA i : \A j \in 1..(i - 1) : key[j] # key[i])
    IN  IF Cardinality({key[i] : i \in 1..n}) = n THEN interpretations
        ELSE [u \in 1..Len(first) |->
                 KeepGreater(interpretations[first[u]], interpretations,
                             SelectSeq(indices,
                                       LAMBDA j : j > first[u] /\ key[j] = key[first[u]]))]

\* a faulty variant of RankedResult: bestInterpretation is the last element
RankedResultLast(notes, normalizedNotes, uniqueInterpretations) ==
    [inputNotes |-> notes,
     normalizedNotes |-> normalizedNotes,
     interpretations |-> uniqueInterpretations,
     bestInterpretation |->
         IF uniqueInterpretations = <<>> THEN None
         ELSE Some(uniqueInterpretations[Len(uniqueInterpretations)])]

\* the object analyzeChord returns when it has interpretations to rank:
\* bestInterpretation: uniqueInterpretations[0] || null
RankedResult(notes, normalizedNotes, uniqueInterpretations) ==
    [inputNotes |-> notes,
     normalizedNotes |-> normalizedNotes,
     interpretations |-> uniqueInterpretations,
     bestInterpretation |->
         IF uniqueInterpretations = <<>> THEN None
         ELSE Some(uniqueInterpretations[1])]

\* the object analyzeChord returns for fewer than 2 notes
EmptyResult(notes, normalizedNotes) ==
    [inputNotes |-> notes,
     normalizedNotes |-> normalizedNotes,
     interpretations |-> <<>>,
     bestInterpretation |-> None]

\* analyzeChord from the normalized notes on
AnalyzeNormalized(notes, normalizedNotes) ==
    IF Len(normalizedNotes) < 2 THEN EmptyResult(notes, normalizedNotes)
    ELSE RankedResult(notes, normalizedNotes,
            removeDuplicateInterpretations(
                SortByConfidence(findAllInterpretations(normalizedNotes))))

\* a faulty variant of analyzeChord: the interpretations are left in the order found
AnalyzeNormalizedUnsorted(notes, normalizedNotes) ==
    IF Len(normalizedNotes) < 2 THEN EmptyResult(notes, normalizedNotes)
    ELSE RankedResult(notes, normalizedNotes,
            removeDuplicateInterpretations(findAllInterpretations(normalizedNotes)))

analyzeChordUnsorted(notes) == AnalyzeNormalizedUnsorted(notes, normalizeNotes(notes))

\* a faulty variant of analyzeChord: fewer than two notes are analysed like any others
AnalyzeNormalizedAnyLength(notes, normalizedNotes) ==
    RankedResult(notes, normalizedNotes,
        removeDuplicateInterpretations(
            SortByConfidence(findAllInterpretations(normalizedNotes))))

analyzeChordAnyLength(notes) == AnalyzeNormalizedAnyLength(notes, normalizeNotes(notes))

analyzeChord(notes) == AnalyzeNormalized(notes, normalizeNotes(notes))

\* returns the interpretation, or null
quickDetectChord(notes) == analyzeChord(notes).bestInterpretation

\* best.confidence >= minConfidence, for the default minConfidence of 0.6
ConfidentEnough(best, minConfidence) ==
    best # None /\ ~ConfGreater(minConfidence, best[1].confidence)

isValidChord(notes) == ConfidentEnough(quickDetectChord(notes), ConfRatio(6, 10))

(***************************************************************************)
(* The state machines.  Each engine is a pure function: an initial state   *)
(* holds the arguments of a call, and the call's action what it returned.  *)
(***************************************************************************)
\* no call of analyzeChord has returned
NoAnalysis ==
    [inputNotes |-> <<>>, normalizedNotes |-> <<>>,
     interpretations |-> <<>>, bestInterpretation |-> None]

DetectIdle ==
    /\ inputNotes = <<>>
    /\ analysis = NoAnalysis
    /\ baseNotes = <<>>
    /\ baseAnalysis = NoAnalysis
    /\ quick = None
    /\ valid = FALSE

CodecIdle ==
    /\ chordName = <<>>
    /\ identity = None
    /\ parsed = None

PitchIdle ==
    /\ note = "C"
    /\ semitones = 0
    /\ transposed = Undefined

TheoryIdle ==
    /\ fn = "none"
    /\ args = <<>>
    /\ returned = Undefined

\* no call of the manager was made
NoCall == [op |-> "none", args |-> <<>>, outcome |-> "none", storageCalls |-> <<>>]

\* the manager as constructed, over an empty database
ManagerIdle ==
    /\ initialized = FALSE
    /\ chords = <<>>
    /\ stored = <<>>
    /\ storedSets = <<>>
    /\ clock = 0
    /\ nextId = 1
    /\ lastCall = NoCall
    /\ exported = None
    /\ pending = <<>>

(***************************************************************************)
(* Pitch model: a call of transposeNote.                                   *)
(***************************************************************************)
InitPitch ==
    /\ note \in Note
    /\ semitones \in (-MaxSemitones)..MaxSemitones
    /\ transposed = Undefined
    /\ phase = "input"
    /\ CodecIdle /\ DetectIdle /\ TheoryIdle /\ ManagerIdle

Transpose ==
    /\ phase = "input"
    /\ transposed' = transposeNote(note, semitones)
    /\ phase' = "output"
    /\ UNCHANGED <<note, semitones, codecVars, detectVars, theoryVars, managerVars>>

NextPitch == Transpose

SpecPitch == InitPitch /\ [][NextPitch]_vars

\* the pitch class of a note in either spelling, 0..11
PitchClass(n) ==
    IF Includes(CHROMATIC_NOTES, n) THEN IndexOf(CHROMATIC_NOTES, n)
    ELSE IndexOf(FLAT_NOTES, n)

SharpNotes == Range(CHROMATIC_NOTES)

\* C9 as stated: transposing any accepted note name by 0 or by 12 semitones
\* returns that same note name.
C9_AsStated == (phase = "output" /\ semitones \in {0, 12}) => transposed = note

\* C9 amended: transposing by 0 or by 12 semitones returns the sharp-spelled
\* name of the same pitch class: the note itself when it is sharp-spelled,
\* its sharp-spelled enharmonic equivalent when it is flat-spelled.
C9_OctaveIdentity ==
    (phase = "output" /\ semitones \in {0, 12}) =>
        /\ transposed \in SharpNotes
        /\ PitchClass(transposed) = PitchClass(note)
        /\ (note \in SharpNotes => transposed = note)

C9_Witness == phase = "output" /\ note = "Eb" /\ semitones = 12 /\ transposed = "D#"

\* C10: for every recognized note and every integer offset, transposeNote
\* returns the canonical sharp-spelled note at index
\* (index(note) + semitones) modulo 12, the non-negative remainder.
C10_AsStated ==
    phase = "output" =>
        /\ transposed \in SharpNotes
        /\ IndexOf(CHROMATIC_NOTES, transposed) = (PitchClass(note) + semitones) % 12

(***************************************************************************)
(* Identity codec: a name is formatted from an identity and parsed back,   *)
(* or a typed name is parsed.                                              *)
(***************************************************************************)
\* the names typed: a root letter or none, an accidental or none, a suffix
TypedLetters == {<<>>, <<"A">>, <<"B">>, <<"C">>, <<"D">>, <<"E">>, <<"F">>, <<"G">>,
                 <<"H">>, <<"c">>}
TypedAccidentals == {<<>>, <<"#">>, <<"b">>}
AliasSuffixes == {<<"m", "i", "n">>, <<"m", "i", "n", "o", "r">>,
                  <<"m", "a", "j">>, <<"m", "a", "j", "o", "r">>}
TypedSuffixes ==
    SuffixKeys \cup AliasSuffixes \cup ObjectPrototypeKeys \cup
    { <<"x">>, <<"M", "7">>, <<"s", "u", "s">>, <<"5">>, <<"m", "i">>,
      <<"m", "7", "b", "5">>, <<"\n">>, <<"m", "\n">>, <<" ">>, <<"m", "a", "j", "7", " ">> }
TypedNames == {l \o a \o x : l \in TypedLetters, a \in TypedAccidentals, x \in TypedSuffixes}

InitCodec ==
    /\ \/ /\ phase = "input"
          /\ identity \in {Some([root |-> r, quality |-> q]) : r \in Note, q \in ChordQuality}
          /\ chordName = <<>>
       \/ /\ phase = "name"
          /\ identity = None
          /\ chordName \in TypedNames
    /\ parsed = None
    /\ PitchIdle /\ DetectIdle /\ TheoryIdle /\ ManagerIdle

FormatName ==
    /\ phase = "input"
    /\ chordName' = formatChordName(identity[1].root, identity[1].quality)
    /\ phase' = "name"
    /\ UNCHANGED <<identity, parsed, pitchVars, detectVars, theoryVars, managerVars>>

ParseName ==
    /\ phase = "name"
    /\ parsed' = parseChordNameToIdentity(chordName)
    /\ phase' = "output"
    /\ UNCHANGED <<identity, chordName, pitchVars, detectVars, theoryVars, managerVars>>

NextCodec == FormatName \/ ParseName

SpecCodec == InitCodec /\ [][NextCodec]_vars

\* C7: for every root of the 17 note names and every one of the 17
\* qualities, parsing the formatted name gives back exactly that root and
\* that quality.
C7_RoundTrip == (phase = "output" /\ identity # None) => parsed = identity

C7_Witness ==
    /\ phase = "output"
    /\ identity = Some([root |-> "Bb", quality |-> "half-diminished7"])
    /\ chordName = <<"B", "b", "hdim", "7">>
    /\ parsed = identity

\* what C8 says parse returns: the leading root token is a root letter and
\* the accidental after it, if any
ClaimedParse(name) ==
    LET token == IF Len(name) >= 2 /\ name[2] \in {"#", "b"}
                 THEN SubSeq(name, 1, 2)
                 ELSE IF name = <<>> THEN <<>> ELSE SubSeq(name, 1, 1)
        suffix == SubSeq(name, Len(token) + 1, Len(name))
        root == CHOOSE n \in Note : Spell[n] = token
    IN  IF token \notin {Spell[n] : n \in Note} THEN None
        ELSE IF suffix \in SuffixKeys
             THEN Some([root |-> root,
                        quality |-> (CHOOSE e \in SUFFIX_TO_QUALITY : e[1] = suffix)[2]])
             ELSE IF suffix \in {<<"m", "i", "n">>, <<"m", "i", "n", "o", "r">>}
                  THEN Some([root |-> root, quality |-> "minor"])
                  ELSE IF suffix \in {<<"m", "a", "j">>, <<"m", "a", "j", "o", "r">>}
                       THEN Some([root |-> root, quality |-> "major"])
                       ELSE None

\* C8: parse returns null exactly when the leading root token is not a
\* recognized note name or the non-empty suffix is neither in the suffix
\* table nor an alias (min, minor, maj, major); otherwise it returns the root
\* with the table quality, minor and major for the aliases, major for an
\* empty suffix.
C8_AsStated == phase = "output" => parsed = ClaimedParse(chordName)

(***************************************************************************)
(* Chord detection: a note list is analyzed; then the same notes are given *)
(* again in another order, in another spelling, repeated, padded or mixed  *)
(* with tokens that are no notes, and analyzed again.                      *)
(***************************************************************************)
\* the sharp-spelled names of a set of positions of CHROMATIC_NOTES, ascending
SpelledAscending(S) ==
    LET picked == SelectSeq(CHROMATIC_NOTES, LAMBDA n : IndexOf(CHROMATIC_NOTES, n) + 1 \in S)
    IN  [i \in 1..Len(picked) |-> Spell[picked[i]]]

\* the ascending lists of at most k of the notes at the positions P
ListsOver(P, k) ==
    {SpelledAscending(S) : S \in {T \in SUBSET P : Cardinality(T) <= k}}

BaseLists == ListsOver(1..12, MaxNotes)

InitDetect ==
    /\ baseNotes \in BaseLists
    /\ inputNotes = baseNotes
    /\ analysis = NoAnalysis
    /\ baseAnalysis = NoAnalysis
    /\ quick = None
    /\ valid = FALSE
    /\ phase = "input"
    /\ CodecIdle /\ PitchIdle /\ TheoryIdle /\ ManagerIdle

Analyze ==
    /\ phase = "input"
    /\ analysis' = analyzeChord(inputNotes)
    /\ baseAnalysis' = analysis'
    /\ phase' = "output"
    /\ UNCHANGED <<inputNotes, baseNotes, quick, valid, codecVars, pitchVars, theoryVars, managerVars>>

NextDetect == Analyze

SpecDetect == InitDetect /\ [][NextDetect]_vars

\* the pitch classes named by a note list: the tokens that, trimmed, spell a note
PitchClassesOf(notes) ==
    {PitchClass(n) : n \in {m \in Note : \E i \in 1..Len(notes) : Trim(notes[i]) = Spell[m]}}

\* the pitch classes of generateChordNotes(root, quality)
ChordTones(root, quality) ==
    {PitchClass(n) : n \in Range(generateChordNotes(root, quality))}

IsPlain(interp) == interp.bassNote = Undefined

Interpretations == Range(analysis.interpretations)

\* the 12 major triads, as sets of pitch classes, by root
MajorTriad(r) == {(r + d) % 12 : d \in {0, 4, 7}}

\* C1: for every one of the 12 sharp-spelled roots r, analyzeChord of the
\* three notes of the major triad on r has a bestInterpretation with root r,
\* quality major, confidence exactly 1.0 and no missing and no extra notes.
C1_MajorTriads ==
    \A r \in 0..11 :
        (phase = "output" /\ PitchClassesOf(inputNotes) = MajorTriad(r)) =>
            /\ analysis.bestInterpretation # None
            /\ LET best == analysis.bestInterpretation[1]
               IN  /\ best.root = CHROMATIC_NOTES[r + 1]
                   /\ best.quality = "major"
                   /\ best.bassNote = Undefined
                   /\ best.confidence = ConfOne
                   /\ best.missingNotes = <<>>
                   /\ best.extraNotes = <<>>

C1_Witness ==
    /\ phase = "output"
    /\ inputNotes = <<Spell["C"], Spell["F"], Spell["A"]>>
    /\ analysis.bestInterpretation # None
    /\ analysis.bestInterpretation[1].root = "F"
    /\ analysis.bestInterpretation[1].quality = "major"
    /\ analysis.bestInterpretation[1].confidence = ConfOne

\* C4: a non-slash interpretation (root, quality) of the result has
\* confidence exactly 1.0 if and only if the input pitch classes are exactly
\* the pitch classes of chordNotes(root, quality); otherwise its confidence is
\* below 1.0.
C4_AsStated ==
    phase = "output" =>
        \A interp \in Interpretations :
            IsPlain(interp) =>
                /\ interp.confidence = ConfOne
                    <=> PitchClassesOf(inputNotes) = ChordTones(interp.root, interp.quality)
                /\ interp.confidence # ConfOne => ConfGreater(ConfOne, interp.confidence)

\* the notes named by a list of labels `interval (note)`
LabelledNotes(labels) == {PitchClass(labels[i][2]) : i \in 1..Len(labels)}

\* C5: for every non-slash interpretation, missingNotes names exactly the
\* chord tones absent from the input and extraNotes exactly the input notes
\* that are no chord tones; no pitch class is both missing and extra.
C5_AsStated ==
    phase = "output" =>
        \A interp \in Interpretations :
            IsPlain(interp) =>
                LET tones == ChordTones(interp.root, interp.quality)
                    given == PitchClassesOf(inputNotes)
                IN  /\ LabelledNotes(interp.missingNotes) = tones \ given
                    /\ LabelledNotes(interp.extraNotes) = given \ tones
                    /\ LabelledNotes(interp.missingNotes)
                         \cap LabelledNotes(interp.extraNotes) = {}

\* C6: for every slash interpretation X/b of the result, the plain X with
\* the same root and quality is in the result with a confidence that is not
\* smaller, and the slash interpretation's confidence is not above 0.9.
C6_SlashBelowPlain ==
    phase = "output" =>
        \A slash \in Interpretations :
            ~IsPlain(slash) =>
                /\ slash.bassNote # slash.root
                /\ ~ConfGreater(slash.confidence, ConfRatio(9, 10))
                /\ \E plain \in Interpretations :
                    /\ IsPlain(plain)
                    /\ plain.root = slash.root
                    /\ plain.quality = slash.quality
                    /\ ~ConfGreater(slash.confidence, plain.confidence)

C6_Witness ==
    /\ phase = "output"
    /\ inputNotes = <<Spell["C"], Spell["E"], Spell["G"], Spell["A"]>>
    /\ \E slash \in Interpretations :
        /\ slash.root = "C" /\ slash.quality = "major" /\ slash.bassNote = "E"
        /\ slash.name = <<"C", "/", "E">>
        /\ \E plain \in Interpretations :
            /\ IsPlain(plain) /\ plain.root = "C" /\ plain.quality = "major"
            /\ ConfGreater(plain.confidence, slash.confidence)

(***************************************************************************)
(* The same notes given again: analyzeChord is called with the base list,  *)
(* then with one variant of it that names the same pitch classes.          *)
(***************************************************************************)
\* the notes of the base lists: C, C#, E, F#, G, A#
VariantPositions == {1, 2, 5, 7, 8, 11}

InitVariants ==
    /\ baseNotes \in ListsOver(VariantPositions, MaxVariantNotes)
    /\ inputNotes = baseNotes
    /\ analysis = NoAnalysis
    /\ baseAnalysis = NoAnalysis
    /\ quick = None
    /\ valid = FALSE
    /\ phase = "input"
    /\ CodecIdle /\ PitchIdle /\ TheoryIdle /\ ManagerIdle

\* the caller makes another list of the one analysed
EditTo(variant) ==
    /\ phase = "output"
    /\ inputNotes' = variant
    /\ phase' = "edited"
    /\ UNCHANGED <<analysis, baseNotes, baseAnalysis, quick, valid, codecVars, pitchVars, theoryVars, managerVars>>

\* analyzeChord is called with the other list
Reanalyze ==
    /\ phase = "edited"
    /\ analysis' = analyzeChord(inputNotes)
    /\ phase' = "compared"
    /\ UNCHANGED <<inputNotes, baseNotes, baseAnalysis, quick, valid, codecVars, pitchVars, theoryVars, managerVars>>

\* the flat spelling of a sharp-spelled note that has one
HasFlatSpelling(chars) == Len(chars) = 2 /\ chars[2] = "#"
FlatSpelling(chars) == Spell[FLAT_NOTES[IndexOf(CHROMATIC_NOTES, NoteSpelled(chars)) + 1]]

Reorder ==
    \E perm \in Permutations(1..Len(baseNotes)) :
        /\ \E i \in 1..Len(baseNotes) : perm[i] # i
        /\ EditTo([i \in 1..Len(baseNotes) |-> baseNotes[perm[i]]])

Respell ==
    \E P \in SUBSET {i \in 1..Len(baseNotes) : HasFlatSpelling(baseNotes[i])} :
        /\ P # {}
        /\ EditTo([i \in 1..Len(baseNotes) |->
                              IF i \in P THEN FlatSpelling(baseNotes[i]) ELSE baseNotes[i]])

Repeat ==
    \E i \in 1..Len(baseNotes), respelled \in BOOLEAN :
        /\ respelled => HasFlatSpelling(baseNotes[i])
        /\ EditTo(Append(baseNotes,
                                 IF respelled THEN FlatSpelling(baseNotes[i])
                                 ELSE baseNotes[i]))

Pad ==
    \E i \in 1..Len(baseNotes) :
        EditTo([baseNotes EXCEPT ![i] = <<" ">> \o @ \o <<" ">>])

\* tokens that name no note
JunkTokens == {<<>>, <<" ">>, <<"H">>, <<"C", "b">>}

AddJunk ==
    \E junk \in JunkTokens, atFront \in BOOLEAN :
        EditTo(IF atFront THEN <<junk>> \o baseNotes ELSE Append(baseNotes, junk))

NextVariants == Analyze \/ Reorder \/ Respell \/ Repeat \/ Pad \/ AddJunk \/ Reanalyze

SpecVariants == InitVariants /\ [][NextVariants]_vars

\* C2: a list that names the same pitch classes as another (a permutation
\* of it, a version with repeated notes or with enharmonic spellings) has
\* the same normalizedNotes and the same ranked interpretation list.
C2_SetDetermines ==
    (phase = "compared" /\ PitchClassesOf(inputNotes) = PitchClassesOf(baseNotes)) =>
        /\ analysis.normalizedNotes = baseAnalysis.normalizedNotes
        /\ analysis.interpretations = baseAnalysis.interpretations
        /\ analysis.bestInterpretation = baseAnalysis.bestInterpretation

C2_Witness ==
    /\ phase = "compared"
    /\ baseNotes = <<Spell["C"], Spell["E"], Spell["G"]>>
    /\ inputNotes = <<Spell["E"], Spell["G"], Spell["C"]>>
    /\ analysis.normalizedNotes = <<"C", "E", "G">>
    /\ analysis.bestInterpretation # None
    /\ analysis.interpretations = baseAnalysis.interpretations

(***************************************************************************)
(* Short lists of any tokens, given to analyzeChord, quickDetectChord and  *)
(* isValidChord.                                                           *)
(***************************************************************************)
QuickTokens ==
    {Spell["C"], Spell["C#"], Spell["Db"], Spell["E"], Spell["G"],
     <<" ", "C", " ">>, <<"b">>} \cup JunkTokens

RECURSIVE TokenLists(_)
TokenLists(k) ==
    IF k = 0 THEN {<<>>}
    ELSE TokenLists(k - 1)
         \cup {Append(l, t) : l \in {m \in TokenLists(k - 1) : Len(m) = k - 1},
                              t \in QuickTokens}

InitQuick ==
    /\ inputNotes \in TokenLists(MaxTokens)
    /\ baseNotes = inputNotes
    /\ analysis = NoAnalysis
    /\ baseAnalysis = NoAnalysis
    /\ quick = None
    /\ valid = FALSE
    /\ phase = "input"
    /\ CodecIdle /\ PitchIdle /\ TheoryIdle /\ ManagerIdle

QuickDetect ==
    /\ phase = "input"
    /\ quick' = quickDetectChord(inputNotes)
    /\ phase' = "quick"
    /\ UNCHANGED <<inputNotes, baseNotes, analysis, baseAnalysis, valid, codecVars, pitchVars, theoryVars, managerVars>>

CheckValid ==
    /\ phase = "input"
    /\ valid' = isValidChord(inputNotes)
    /\ phase' = "valid"
    /\ UNCHANGED <<inputNotes, baseNotes, analysis, baseAnalysis, quick, codecVars, pitchVars, theoryVars, managerVars>>

NextQuick == Analyze \/ QuickDetect \/ CheckValid

SpecQuick == InitQuick /\ [][NextQuick]_vars

\* C3: when the input holds fewer than 2 distinct recognizable pitch
\* classes, analyzeChord returns no interpretation and a null
\* bestInterpretation, quickDetectChord returns null and isValidChord false.
C3_TooFewNotes ==
    Cardinality(PitchClassesOf(inputNotes)) < 2 =>
        /\ phase = "output" =>
            /\ analysis.interpretations = <<>>
            /\ analysis.bestInterpretation = None
            /\ Len(analysis.normalizedNotes) = Cardinality(PitchClassesOf(inputNotes))
        /\ phase = "quick" => quick = None
        /\ phase = "valid" => valid = FALSE

C3_Witness ==
    /\ inputNotes = <<Spell["C#"], Spell["Db"]>>
    /\ phase = "output"
    /\ analysis.normalizedNotes = <<"C#">>
    /\ analysis.interpretations = <<>>
    /\ analysis.bestInterpretation = None

(***************************************************************************)
(* Theory model: a call of one of the pure functions of music-theory.ts,   *)
(* or of the label conversion of both engines.                             *)
(***************************************************************************)
\* the note lists given to generateInversions: notes may repeat
InversionNotes == {"C", "E", "G"}

RECURSIVE ListsUpTo(_, _)
ListsUpTo(S, k) ==
    IF k = 0 THEN {<<>>}
    ELSE ListsUpTo(S, k - 1)
         \cup {Append(l, x) : l \in {m \in ListsUpTo(S, k - 1) : Len(m) = k - 1}, x \in S}

\* the notes of the lists given to findCompatibleScales: sharp- and
\* flat-spelled, in any order, repeated or not
ChordToneNames == {"C", "E", "G", "Db"}

\* the chord qualities given to getRomanNumeral
NumeralQualities == {"major", "minor", "major7", "minor7", "dominant7", "diminished"}

\* the interval labels of the quality table
QualityLabels ==
    UNION {Range(CHORD_INTERVALS[q]) : q \in ChordQuality}

\* the labels converted: those of the quality table, those either engine
\* knows, and one that none knows
ConvertedLabels ==
    QualityLabels \cup TheoryIntervalLabels \cup DetectionIntervalLabels \cup {"x"}

\* the parsed chords of a progression: names with a sharp, a flat and a
\* natural root, with and without a suffix, and two names without a root
ParsedNames ==
    {[name |-> chars] : chars \in {<<"C">>, <<"C", "m">>, <<"C", "#">>, <<"D", "b", "7">>,
                                   <<"G", "7">>, <<"N", "C">>, <<"c">>}}

InitTheory ==
    /\ \/ fn = "getSemitoneDistance" /\ args \in Note \X Note
       \/ fn = "generateChordNotes" /\ args \in Note \X ChordQuality
       \/ fn = "generateInversions"
            /\ args \in {<<l>> : l \in ListsUpTo(InversionNotes, MaxInversionNotes)}
       \/ fn = "getRomanNumeral"
            /\ args \in Note \X NumeralQualities \X Note \X BOOLEAN
       \/ fn = "intervalToSemitones" /\ args \in {<<l>> : l \in ConvertedLabels}
       \/ fn = "findCompatibleScales"
            /\ args \in {<<l>> : l \in ListsUpTo(ChordToneNames, MaxScaleNotes)}
       \/ fn = "findChordsByNote" /\ args \in {<<n>> : n \in Note}
       \/ fn = "suggestChordExtensions" /\ args \in Note \X ChordQuality
       \/ fn = "analyzeChordProgression"
            /\ args \in {<<l>> : l \in ListsUpTo(ParsedNames, MaxProgression)}
    /\ returned = Undefined
    /\ phase = "input"
    /\ CodecIdle /\ PitchIdle /\ DetectIdle /\ ManagerIdle

\* the call returns
Return(value) ==
    /\ phase = "input"
    /\ returned' = value
    /\ phase' = "output"
    /\ UNCHANGED <<fn, args, codecVars, pitchVars, detectVars, managerVars>>

Distance ==
    /\ fn = "getSemitoneDistance"
    /\ Return(getSemitoneDistance(args[1], args[2]))

ChordNotes ==
    /\ fn = "generateChordNotes"
    /\ Return(generateChordNotes(args[1], args[2]))

Inversions ==
    /\ fn = "generateInversions"
    /\ Return(generateInversions(args[1]))

RomanNumeral ==
    /\ fn = "getRomanNumeral"
    /\ Return(getRomanNumeral(args[1], args[2], args[3], args[4]))

\* the label is converted by the derivation engine and by the detection engine
ConvertLabel ==
    /\ fn = "intervalToSemitones"
    /\ Return([theory |-> intervalToSemitones(args[1]),
               detection |-> detectionIntervalToSemitones(args[1])])

CompatibleScales ==
    /\ fn = "findCompatibleScales"
    /\ Return(findCompatibleScales(args[1]))

ChordsByNote ==
    /\ fn = "findChordsByNote"
    /\ Return(findChordsByNote(args[1]))

ChordExtensions ==
    /\ fn = "suggestChordExtensions"
    /\ Return(suggestChordExtensions(args[1], args[2]))

ChordProgression ==
    /\ fn = "analyzeChordProgression"
    /\ Return(analyzeChordProgression(args[1]))

NextTheory ==
    \/ ChordsByNote
    \/ ChordExtensions
    \/ ChordProgression
    \/ Distance
    \/ ChordNotes
    \/ Inversions
    \/ RomanNumeral
    \/ ConvertLabel
    \/ CompatibleScales

SpecTheory == InitTheory /\ [][NextTheory]_vars

Called(name) == phase = "output" /\ fn = name

\* C11 as stated: for all notes a and b, getSemitoneDistance(a, b) is in
\* 0..11 and equals (index(b) - index(a)) modulo 12; the distance of a note
\* to itself is 0, and for different notes the distances both ways add up
\* to 12.
C11_AsStated ==
    Called("getSemitoneDistance") =>
        LET a == args[1]
            b == args[2]
        IN  /\ returned \in 0..11
            /\ returned = (PitchClass(b) - PitchClass(a)) % 12
            /\ a = b => returned = 0
            /\ a # b => returned + getSemitoneDistance(b, a) = 12

\* the sharp-spelled name of a pitch class 0..11
SharpName(pc) == CHROMATIC_NOTES[pc + 1]

\* the semitones of an interval label of the quality table, by the table of
\* the derivation engine
LabelSemitones(label) == TheoryIntervalMapping[label]

\* what holds of generateChordNotes(r, q) apart from its first note: as
\* many notes as q has labels, the i-th at (index(r) + semitones(label i))
\* modulo 12
NotesFollowLabels ==
    LET r == args[1]
        labels == CHORD_INTERVALS[args[2]]
    IN  /\ Len(returned) = Len(labels)
        /\ \A i \in 1..Len(labels) :
              returned[i] = SharpName((PitchClass(r) + LabelSemitones(labels[i])) % 12)

\* C12 as stated: generateChordNotes(r, q) has as many notes as q has
\* interval labels, the i-th being the pitch class at
\* (index(r) + semitones(label i)) modulo 12, and its first note is r.
C12_AsStated ==
    Called("generateChordNotes") => (NotesFollowLabels /\ returned[1] = args[1])

\* C12 amended: as stated, but the first note is the sharp-spelled name of
\* the pitch class of r: r itself only when r is sharp-spelled.
C12_ChordNotes ==
    Called("generateChordNotes") =>
        /\ NotesFollowLabels
        /\ returned[1] = SharpName(PitchClass(args[1]))
        /\ (args[1] \in SharpNotes => returned[1] = args[1])

C12_Witness ==
    /\ Called("generateChordNotes")
    /\ args = <<"Eb", "dominant9">>
    /\ returned = <<"D#", "G", "A#", "C#", "F">>

\* the list left-rotated by i positions
RotatedLeft(notes, i) ==
    [j \in 1..Len(notes) |-> notes[((i + j - 1) % Len(notes)) + 1]]

\* C13: for a list of n notes, repeated or not, generateInversions returns
\* exactly n lists; list i (from 0) is the input left-rotated by i
\* positions, list 0 the input itself.
C13_Rotations ==
    Called("generateInversions") =>
        LET notes == args[1]
        IN  /\ Len(returned) = Len(notes)
            /\ \A i \in 0..(Len(notes) - 1) : returned[i + 1] = RotatedLeft(notes, i)
            /\ notes # <<>> => returned[1] = notes

C13_Witness ==
    /\ Called("generateInversions")
    /\ args = << <<"C", "E", "C">> >>
    /\ returned = << <<"C", "E", "C">>, <<"E", "C", "C">>, <<"C", "C", "E">> >>

\* the pitch classes of the 7 degrees of the key's scale
DegreeClasses(key, isMinorKey) ==
    LET pattern == SCALE_PATTERNS[IF isMinorKey THEN "natural_minor" ELSE "major"]
    IN  [i \in 1..Len(pattern) |-> (PitchClass(key) + pattern[i]) % 12]

\* the numeral is the table entry, in either case, with 7 added or not
BuiltFrom(numeral, entry) ==
    \E tail \in {<<>>, <<"7">>} :
        \E cased \in {entry, ToLowerCase(entry), ToUpperCase(entry)} :
            numeral = cased \o tail

\* C14 as stated: getRomanNumeral returns null exactly when the pitch class
\* of the chord root is none of the 7 degrees of the key's major scale
\* (natural minor for a minor key), and otherwise a numeral built from the
\* entry of the numeral table at the root's degree.
C14_AsStated ==
    Called("getRomanNumeral") =>
        LET degrees == DegreeClasses(args[3], args[4])
            degree == IndexOf(degrees, PitchClass(args[1]))
            numerals == IF args[4] THEN MINOR_KEY_NUMERALS ELSE MAJOR_KEY_NUMERALS
        IN  /\ returned = None <=> degree = -1
            /\ degree # -1 =>
                  (returned # None /\ BuiltFrom(returned[1], At0(numerals, degree)))

\* the pitch classes of the notes of the scale of a key
ScaleClasses(key, scaleName) ==
    {(PitchClass(key) + SCALE_PATTERNS[scaleName][i]) % 12 :
        i \in 1..Len(SCALE_PATTERNS[scaleName])}

\* how many of the chord notes are contained in the scale of the key
CommonToneCount(chordNotes, key, scaleName) ==
    Cardinality({i \in 1..Len(chordNotes) :
                    PitchClass(chordNotes[i]) \in ScaleClasses(key, scaleName)})

\* the (key, scale) pairs containing at least 75% of the chord notes
CompatiblePairs(chordNotes) ==
    {pair \in SharpNotes \X Range(ALL_SCALES) :
        4 * CommonToneCount(chordNotes, pair[1], pair[2]) >= 3 * Len(chordNotes)}

\* C15 as stated: for a list of chord notes, findCompatibleScales returns
\* exactly those of the 144 (key, scale) pairs whose scale contains at least
\* 75% of the chord notes, each once and with that fraction as its
\* compatibility, in order of non-increasing compatibility.
C15_AsStated ==
    (Called("findCompatibleScales") /\ args[1] # <<>>) =>
        LET chordNotes == args[1]
            n == Len(returned)
        IN  /\ {<<returned[i].key, returned[i].scale>> : i \in 1..n}
                  = CompatiblePairs(chordNotes)
            /\ n = Cardinality(CompatiblePairs(chordNotes))
            /\ \A i \in 1..n :
                  /\ returned[i].compatibility.den = Len(chordNotes)
                  /\ returned[i].compatibility.num
                        = CommonToneCount(chordNotes, returned[i].key, returned[i].scale)
            /\ \A i \in 1..n : \A j \in i..n :
                  returned[i].compatibility.num >= returned[j].compatibility.num

\* C20 as stated: for every interval label of the quality table the
\* detection engine's conversion gives the value the derivation engine's
\* gives, and in neither engine is the label unknown (so that it would be
\* converted to 0 by the fallback).
C20_AsStated ==
    (Called("intervalToSemitones") /\ args[1] \in QualityLabels) =>
        /\ returned.detection = returned.theory
        /\ args[1] \in TheoryIntervalLabels
        /\ args[1] \in DetectionIntervalLabels

(***************************************************************************)
(* Round trip: the notes derived for a root and a quality are analyzed.    *)
(***************************************************************************)
InitRoundTrip ==
    /\ fn = "generateChordNotes"
    /\ args \in SharpNotes \X ChordQuality
    /\ returned = Undefined
    /\ phase = "input"
    /\ DetectIdle /\ CodecIdle /\ PitchIdle /\ ManagerIdle

\* the notes of the chord are derived and handed to the detection
Derive ==
    /\ phase = "input"
    /\ returned' = generateChordNotes(args[1], args[2])
    /\ inputNotes' = [i \in 1..Len(returned') |-> Spell[returned'[i]]]
    /\ phase' = "derived"
    /\ UNCHANGED <<fn, args, analysis, baseNotes, baseAnalysis, quick, valid,
                   codecVars, pitchVars, managerVars>>

AnalyzeDerived ==
    /\ phase = "derived"
    /\ analysis' = analyzeChord(inputNotes)
    /\ phase' = "output"
    /\ UNCHANGED <<inputNotes, baseNotes, baseAnalysis, quick, valid,
                   codecVars, pitchVars, theoryVars, managerVars>>

NextRoundTrip == Derive \/ AnalyzeDerived

SpecRoundTrip == InitRoundTrip /\ [][NextRoundTrip]_vars

\* C19 as stated: for every sharp-spelled root r and every quality q, the
\* analysis of generateChordNotes(r, q) contains an interpretation with root
\* r and quality q whose confidence is 1.0 and whose missingNotes and
\* extraNotes are both empty.
C19_AsStated ==
    (phase = "output" /\ fn = "generateChordNotes") =>
        \E interp \in Interpretations :
            /\ interp.root = args[1]
            /\ interp.quality = args[2]
            /\ interp.confidence = ConfOne
            /\ interp.missingNotes = <<>>
            /\ interp.extraNotes = <<>>

(***************************************************************************)
(* Chord manager: chord-manager.ts over the ChordService of its memory and *)
(* the ChordStorage of its database.  Every call of the manager is one     *)
(* step; the requests to the database succeed.                             *)
(***************************************************************************)
\* a Date, and the string toISOString gives for it
Date(t) == [date |-> t]
ISOString(t) == [iso |-> t]

IsDate(value) == DOMAIN value = {"date"}

toISOString(date) == ISOString(date.date)

\* new Date(string)
NewDate(string) == Date(string.iso)

\* Map: the entries in the order of insertion
MapHas(map, id) == \E i \in 1..Len(map) : map[i].id = id

MapGet(map, id) == map[CHOOSE i \in 1..Len(map) : map[i].id = id]

MapSet(map, chord) ==
    IF MapHas(map, chord.id)
    THEN [i \in 1..Len(map) |-> IF map[i].id = chord.id THEN chord ELSE map[i]]
    ELSE Append(map, chord)

MapDelete(map, id) == SelectSeq(map, LAMBDA c : c.id # id)

\* object store with keyPath id: the records in the order of their keys
StorePut(store, record) ==
    SelectSeq(store, LAMBDA r : r.id < record.id)
        \o <<record>>
        \o SelectSeq(store, LAMBDA r : r.id > record.id)

StoreDelete(store, id) == SelectSeq(store, LAMBDA r : r.id # id)

\* createdAt.toISOString() and updatedAt.toISOString() do not throw
HasDates(object) == IsDate(object.createdAt) /\ IsDate(object.updatedAt)

\* the record saveChord puts
ChordRecord(chord) ==
    [id |-> chord.id, root |-> chord.root, quality |-> chord.quality,
     createdAt |-> toISOString(chord.createdAt),
     updatedAt |-> toISOString(chord.updatedAt)]

\* the record saveChordSet puts
ChordSetRecord(chordSet) ==
    [chordSet EXCEPT !.createdAt = toISOString(chordSet.createdAt),
                     !.updatedAt = toISOString(chordSet.updatedAt)]

hydrateChord(record) ==
    [id |-> record.id, root |-> record.root, quality |-> record.quality,
     createdAt |-> NewDate(record.createdAt),
     updatedAt |-> NewDate(record.updatedAt)]

\* ChordStorage.getAllChords
StorageGetAllChords(store) == [i \in 1..Len(store) |-> hydrateChord(store[i])]

\* ensureInitialized: a manager not initialized loads the stored chords
\* (loadChordsFromStorage: clear, then setChord for each)
EnsuredChords == IF initialized THEN chords ELSE StorageGetAllChords(stored)

\* the storage calls of ensureInitialized
EnsureCalls == IF initialized THEN <<>> ELSE <<"init", "getAllChords">>

\* ChordService.addChord
ServiceAddChord(map, id, root, quality, now) ==
    LET chord == [id |-> id, root |-> root, quality |-> quality,
                  createdAt |-> now, updatedAt |-> now]
    IN  [thrown |-> FALSE, chords |-> MapSet(map, chord), chord |-> chord]

\* a faulty variant of ServiceUpdateChord: a chord not found is created
ServiceUpdateOrCreate(map, id, updates, now) ==
    LET chord == [updatedAt |-> now] @@ updates
                     @@ [id |-> id, root |-> "C", quality |-> "major", createdAt |-> now]
    IN  IF MapHas(map, id)
        THEN [thrown |-> FALSE,
              chords |-> MapSet(map, [updatedAt |-> now] @@ updates @@ MapGet(map, id)),
              chord |-> [updatedAt |-> now] @@ updates @@ MapGet(map, id)]
        ELSE [thrown |-> FALSE, chords |-> MapSet(map, chord), chord |-> chord]

\* ChordService.updateChord: {...chord, ...updates, updatedAt: new Date()}
ServiceUpdateChord(map, id, updates, now) ==
    IF ~MapHas(map, id)
    THEN [thrown |-> TRUE, chords |-> map]
    ELSE [thrown |-> FALSE,
          chords |-> MapSet(map, [updatedAt |-> now] @@ updates @@ MapGet(map, id)),
          chord |-> [updatedAt |-> now] @@ updates @@ MapGet(map, id)]

\* ChordService.deleteChord
ServiceDeleteChord(map, id) ==
    [success |-> MapHas(map, id), chords |-> MapDelete(map, id)]

\* a faulty variant of ServiceTransposeChord: the chord is transposed in place
ServiceTransposeInPlace(map, chordId, by, id, now) ==
    IF ~MapHas(map, chordId)
    THEN [thrown |-> TRUE, chords |-> map]
    ELSE LET chord == [MapGet(map, chordId) EXCEPT
                          !.root = transposeNote(MapGet(map, chordId).root, by),
                          !.updatedAt = now]
         IN  [thrown |-> FALSE, chords |-> MapSet(map, chord), chord |-> chord]

\* ChordService.transposeChord
ServiceTransposeChord(map, chordId, by, id, now) ==
    IF ~MapHas(map, chordId)
    THEN [thrown |-> TRUE, chords |-> map]
    ELSE ServiceAddChord(map, id, transposeNote(MapGet(map, chordId).root, by),
                         MapGet(map, chordId).quality, now)

\* the arguments of the calls
ManagedRoots == {"C"}
ManagedQualities == {"major"}
ManagedSemitones == {-2, 1}
ManagedIds == 1..(MaxIds + 1)
ManagedUpdates == {[root |-> "D"]}

\* what an earlier session left in the database
EarlierChord ==
    [id |-> 1, root |-> "Bb", quality |-> "minor",
     createdAt |-> ISOString(0), updatedAt |-> ISOString(0)]

InitManager ==
    /\ initialized = FALSE
    /\ chords = <<>>
    /\ stored \in {<<>>, <<EarlierChord>>}
    /\ storedSets = <<>>
    /\ clock = 0
    /\ nextId = Len(stored) + 1
    /\ lastCall = NoCall
    /\ exported = None
    /\ pending = <<>>
    /\ phase = "input"
    /\ CodecIdle /\ PitchIdle /\ DetectIdle /\ TheoryIdle

Ended(op, callArgs, outcome, calls) ==
    /\ lastCall' = [op |-> op, args |-> callArgs, outcome |-> outcome,
                    storageCalls |-> EnsureCalls \o calls]
    /\ initialized' = TRUE
    /\ UNCHANGED <<exported, pending, phase, codecVars, pitchVars, detectVars, theoryVars>>

\* init()
Initialize ==
    /\ ~initialized
    /\ chords' = EnsuredChords
    /\ Ended("init", <<>>, "ok", <<>>)
    /\ UNCHANGED <<stored, storedSets, clock, nextId>>

\* addChord(root, quality)
AddChord ==
    \E root \in ManagedRoots, quality \in ManagedQualities :
        /\ nextId <= MaxIds
        /\ clock < MaxClock
        /\ LET added == ServiceAddChord(EnsuredChords, nextId, root, quality,
                                        Date(clock + 1))
           IN  /\ chords' = added.chords
               /\ stored' = StorePut(stored, ChordRecord(added.chord))
        /\ nextId' = nextId + 1
        /\ clock' = clock + 1
        /\ Ended("addChord", <<root, quality>>, "ok", <<"saveChord">>)
        /\ UNCHANGED storedSets

\* updateChord(id, updates)
UpdateChord ==
    \E id \in ManagedIds, updates \in ManagedUpdates :
        /\ clock < MaxClock
        /\ LET updated == ServiceUpdateChord(EnsuredChords, id, updates,
                                             Date(clock + 1))
           IN  /\ chords' = updated.chords
               /\ IF updated.thrown
                  THEN /\ Ended("updateChord", <<id, updates>>, "not found", <<>>)
                       /\ UNCHANGED <<stored, clock>>
                  ELSE /\ stored' = StorePut(stored, ChordRecord(updated.chord))
                       /\ clock' = clock + 1
                       /\ Ended("updateChord", <<id, updates>>, "ok", <<"saveChord">>)
        /\ UNCHANGED <<storedSets, nextId>>

\* deleteChord(id)
DeleteChord ==
    \E id \in ManagedIds :
        /\ LET deleted == ServiceDeleteChord(EnsuredChords, id)
           IN  /\ chords' = deleted.chords
               /\ IF deleted.success
                  THEN /\ stored' = StoreDelete(stored, id)
                       /\ Ended("deleteChord", <<id>>, "true", <<"deleteChord">>)
                  ELSE /\ stored' = stored
                       /\ Ended("deleteChord", <<id>>, "false", <<>>)
        /\ UNCHANGED <<storedSets, clock, nextId>>

\* transposeChord(chordId, semitones)
TransposeChord ==
    \E chordId \in ManagedIds, by \in ManagedSemitones :
        /\ nextId <= MaxIds
        /\ clock < MaxClock
        /\ LET moved == ServiceTransposeChord(EnsuredChords, chordId, by, nextId,
                                              Date(clock + 1))
           IN  /\ chords' = moved.chords
               /\ IF moved.thrown
                  THEN /\ Ended("transposeChord", <<chordId, by>>, "not found", <<>>)
                       /\ UNCHANGED <<stored, clock, nextId>>
                  ELSE /\ stored' = StorePut(stored, ChordRecord(moved.chord))
                       /\ clock' = clock + 1
                       /\ nextId' = nextId + 1
                       /\ Ended("transposeChord", <<chordId, by>>, "ok", <<"saveChord">>)
        /\ UNCHANGED storedSets

\* createChordSet(name)
CreateChordSet ==
    /\ nextId <= MaxIds
    /\ clock < MaxClock
    /\ chords' = EnsuredChords
    /\ storedSets' =
          StorePut(storedSets,
                   ChordSetRecord([id |-> nextId, name |-> "set",
                                   description |-> Undefined, chordIds |-> <<>>,
                                   createdAt |-> Date(clock + 1),
                                   updatedAt |-> Date(clock + 1)]))
    /\ nextId' = nextId + 1
    /\ clock' = clock + 1
    /\ Ended("createChordSet", <<"set">>, "ok", <<"saveChordSet">>)
    /\ UNCHANGED stored

\* what JSON.parse gives for a chord and for a chord set of a payload: the
\* times are strings
ParsedChords ==
    {[id |-> 1, root |-> "C", quality |-> "major",
      createdAt |-> ISOString(0), updatedAt |-> ISOString(0)]}

ParsedChordSets ==
    {[id |-> 3, name |-> "set", description |-> Undefined, chordIds |-> <<>>,
      createdAt |-> ISOString(0), updatedAt |-> ISOString(0)]}

\* the payloads: no JSON at all (None), or an object whose chords and
\* chordSets are arrays or are missing (None)
Payloads ==
    {None}
        \cup {Some(data) :
                 data \in [chords : {None} \cup {Some(l) : l \in ListsUpTo(ParsedChords, MaxImported)},
                           chordSets : {None} \cup {Some(l) : l \in ListsUpTo(ParsedChordSets, MaxImported)}]}

\* the objects saved before one of them makes toISOString throw
SavedBeforeThrow(objects) ==
    SubSeq(objects, 1,
           IF \A i \in 1..Len(objects) : HasDates(objects[i]) THEN Len(objects)
           ELSE (CHOOSE i \in 1..Len(objects) :
                    /\ ~HasDates(objects[i])
                    /\ \A j \in 1..(i - 1) : HasDates(objects[j])) - 1)

RECURSIVE PutAll(_, _)
PutAll(store, records) ==
    IF records = <<>> THEN store
    ELSE PutAll(StorePut(store, Head(records)), Tail(records))

\* ChordStorage.importData: clearAllData, then saveChord for each chord,
\* then saveChordSet for each chord set
StorageImportData(data) ==
    LET savedChords == SavedBeforeThrow(data.chords[1])
        chordsThrow == Len(savedChords) < Len(data.chords[1])
        savedSets == IF chordsThrow THEN <<>> ELSE SavedBeforeThrow(data.chordSets[1])
    IN  [thrown |-> chordsThrow \/ Len(savedSets) < Len(data.chordSets[1]),
         stored |-> PutAll(<<>>, [i \in 1..Len(savedChords) |-> ChordRecord(savedChords[i])]),
         storedSets |-> PutAll(<<>>, [i \in 1..Len(savedSets) |-> ChordSetRecord(savedSets[i])]),
         calls |-> <<"clearAllData">>
                     \o [i \in 1..Len(savedChords) |-> "saveChord"]
                     \o [i \in 1..Len(savedSets) |-> "saveChordSet"]]

\* the JSON a caller has from exportData
ExportedPayloads == IF exported = None THEN {} ELSE {exported}

\* importData(jsonData)
ImportData ==
    \E jsonData \in Payloads \cup ExportedPayloads :
        /\ IF jsonData = None
           THEN /\ chords' = EnsuredChords
                /\ Ended("importData", <<jsonData>>, "error", <<>>)
                /\ UNCHANGED <<stored, storedSets>>
           ELSE IF jsonData[1].chords = None \/ jsonData[1].chordSets = None
           THEN /\ chords' = EnsuredChords
                /\ Ended("importData", <<jsonData>>, "error", <<>>)
                /\ UNCHANGED <<stored, storedSets>>
           ELSE LET imported == StorageImportData(jsonData[1])
                IN  /\ stored' = imported.stored
                    /\ storedSets' = imported.storedSets
                    /\ IF imported.thrown
                       THEN /\ chords' = EnsuredChords
                            /\ Ended("importData", <<jsonData>>, "error", imported.calls)
                       ELSE /\ chords' = StorageGetAllChords(imported.stored)
                            /\ Ended("importData", <<jsonData>>, "ok",
                                     imported.calls \o <<"getAllChords">>)
        /\ UNCHANGED <<clock, nextId>>

\* close()
Close ==
    /\ initialized
    /\ initialized' = FALSE
    /\ lastCall' = [op |-> "close", args |-> <<>>, outcome |-> "ok",
                    storageCalls |-> <<"close">>]
    /\ UNCHANGED <<chords, stored, storedSets, clock, nextId, exported, pending,
                   phase, codecVars, pitchVars, detectVars, theoryVars>>

NextManager ==
    \/ Initialize
    \/ AddChord
    \/ UpdateChord
    \/ DeleteChord
    \/ TransposeChord
    \/ CreateChordSet
    \/ ImportData
    \/ Close

SpecManager == InitManager /\ [][NextManager]_vars

\* the step is a call of the manager's operation op
CallOf(op) == lastCall'.op = op

\* the ids of the chords of a map or of the records of a store
Ids(entries) == {entries[i].id : i \in 1..Len(entries)}

\* the call wrote nothing to the database
NoStorageWrite ==
    /\ stored' = stored
    /\ storedSets' = storedSets
    /\ Range(lastCall'.storageCalls) \subseteq {"init", "getAllChords"}

\* C16: transposeChord(id, s) on an existing chord leaves the chord under
\* id as it is (root, quality, timestamps), adds exactly one chord, under a
\* fresh id, with root transposeNote(original root, s) and the quality of
\* the original, and changes no other chord in memory or in the database.
C16_TransposeAddsOne ==
    [][(CallOf("transposeChord") /\ lastCall'.outcome = "ok") =>
          LET before == EnsuredChords
              original == MapGet(before, lastCall'.args[1])
              new == chords'[Len(chords')]
          IN  /\ MapHas(before, lastCall'.args[1])
              /\ Len(chords') = Len(before) + 1
              /\ \A i \in 1..Len(before) : chords'[i] = before[i]
              /\ new.id \notin Ids(before) \cup Ids(stored) \cup Ids(storedSets)
              /\ new.root = transposeNote(original.root, lastCall'.args[2])
              /\ new.quality = original.quality
              /\ Len(stored') = Len(stored) + 1
              /\ \A i \in 1..Len(stored) : Includes(stored', stored[i])
              /\ Includes(stored', ChordRecord(new))
              /\ storedSets' = storedSets]_vars

C16_Witness ==
    /\ lastCall.op = "transposeChord"
    /\ lastCall.outcome = "ok"
    /\ lastCall.args = <<1, 1>>
    /\ Len(chords) = 2
    /\ chords[1] = hydrateChord(EarlierChord)
    /\ chords[2].id = 2
    /\ chords[2].root = "B"
    /\ chords[2].quality = "minor"
    /\ Len(stored) = 2
    /\ stored[1] = EarlierChord

\* C17 as stated: when importData fails (no JSON, chords or chordSets
\* missing, or a record that cannot be saved), the stored chords, the stored
\* chord sets and the chord map in memory are after the call what they were
\* before it.
C17_AsStated ==
    [][(CallOf("importData") /\ lastCall'.outcome = "error") =>
          /\ stored' = stored
          /\ storedSets' = storedSets
          /\ chords' = EnsuredChords]_vars

\* C18: updateChord and transposeChord with an id that is not in the chord
\* map end with the not-found error, deleteChord with such an id returns
\* false and issues no storage delete; the chord map and the database are
\* left as they were.
C18_UnknownId ==
    [][((CallOf("updateChord") \/ CallOf("transposeChord") \/ CallOf("deleteChord"))
           /\ ~MapHas(EnsuredChords, lastCall'.args[1])) =>
          /\ lastCall'.outcome = IF CallOf("deleteChord") THEN "false" ELSE "not found"
          /\ chords' = EnsuredChords
          /\ NoStorageWrite
          /\ ~Includes(lastCall'.storageCalls, "deleteChord")]_vars

C18_Witness ==
    /\ lastCall.op = "updateChord"
    /\ lastCall.outcome = "not found"
    /\ lastCall.args[1] = 2
    /\ chords = <<hydrateChord(EarlierChord)>>
    /\ stored = <<EarlierChord>>

(***************************************************************************)
(* The interpretations of an analysis: their confidences and their order,  *)
(* for the notes derived from every root and quality.                      *)
(***************************************************************************)
Analyzed == phase = "output" /\ fn = "generateChordNotes"

\* the confidence of the match an interpretation was made from: of all the
\* normalized notes for a plain one, of the notes above the bass for a
\* slash one
MatchConfidence(interp, normalizedNotes) ==
    LET upperNotes == SelectSeq(normalizedNotes, LAMBDA n : n # interp.bassNote)
        intervals ==
            IF IsPlain(interp) THEN calculateIntervals(normalizedNotes, interp.root)
            ELSE calculateIntervals(
                    <<interp.root>> \o SelectSeq(upperNotes, LAMBDA n : n # interp.root),
                    interp.root)
    IN  matchIntervals(intervals, CHORD_INTERVALS[interp.quality], interp.root).confidence

LowerCaseDegrees(isMinorKey) == IF isMinorKey THEN {0, 1, 3, 4} ELSE {1, 2, 5, 6}

OtherCaseNumerals(isMinorKey) ==
    IF isMinorKey
    THEN << <<"I">>, <<"I", "I", "deg">>, <<"i", "i", "i">>, <<"I", "V">>, <<"V">>,
            <<"v", "i">>, <<"v", "i", "i">> >>
    ELSE << <<"i">>, <<"I", "I">>, <<"I", "I", "I">>, <<"i", "v">>, <<"v">>,
            <<"V", "I">>, <<"V", "I", "I", "deg">> >>

C28_ChordsContainingNote ==
    Called("findChordsByNote") =>
        /\ Len(returned) = 65
        /\ \A q \in ChordQuality :
              Cardinality({k \in 1..Len(returned) : returned[k].quality = q})
                  = Len(CHORD_INTERVALS[q])
        /\ \A root \in Note, q \in ChordQuality :
              (\E k \in 1..Len(returned) :
                  /\ returned[k].quality = q
                  /\ PitchClass(returned[k].root) = PitchClass(root))
              <=> PitchClass(args[1]) \in ChordTones(root, q)

C28_Witness ==
    /\ Called("findChordsByNote")
    /\ args = <<"Eb">>
    /\ SubSeq(returned, 1, 3) = <<[root |-> "D#", quality |-> "major"],
                                  [root |-> "B", quality |-> "major"],
                                  [root |-> "G#", quality |-> "major"]>>
    /\ \A k \in 1..Len(returned) : returned[k] # [root |-> "D", quality |-> "major"]

\* the pitch classes of the notes of an extension
ExtensionClasses(extension) ==
    {PitchClass(n) : n \in Range(extension.notes)}

\* C29 as stated: for every root and for quality major or minor, the notes
\* of every chord that suggestChordExtensions returns contain every note of
\* generateChordNotes(root, quality); for every other quality it returns
\* the empty list.
C29_AsStated ==
    Called("suggestChordExtensions") =>
        IF args[2] \in {"major", "minor"}
        THEN \A k \in 1..Len(returned) :
                ChordTones(args[1], args[2]) \subseteq ExtensionClasses(returned[k])
        ELSE returned = <<>>

\* the number of chord names of the progression whose root is r
RootCount(progression, r) ==
    Cardinality({i \in 1..Len(progression) : MatchRoot(progression[i]) = Some(r)})

\* the place of the first chord name whose root is r
FirstPlace(progression, r) ==
    CHOOSE i \in 1..Len(progression) :
        /\ MatchRoot(progression[i]) = Some(r)
        /\ \A j \in 1..(i - 1) : MatchRoot(progression[j]) # Some(r)

\* C30: the key of a progression is a root of one of its chord names that
\* no other root outnumbers, and of the roots that occur as often as it
\* does, it is the one that occurs first; a progression in which no chord
\* name has a root has the key null.
C30_MostFrequentRoot ==
    Called("analyzeChordProgression") =>
        LET progression == returned.progression
            roots == {MatchRoot(progression[i])[1] :
                         i \in {j \in 1..Len(progression) :
                                   MatchRoot(progression[j]) # None}}
        IN  /\ progression = [i \in 1..Len(args[1]) |-> args[1][i].name]
            /\ IF roots = {} THEN returned.key = None
               ELSE \E r \in roots :
                      /\ returned.key = Some(r)
                      /\ \A other \in roots \ {r} :
                            \/ RootCount(progression, other) < RootCount(progression, r)
                            \/ /\ RootCount(progression, other) = RootCount(progression, r)
                               /\ FirstPlace(progression, r) < FirstPlace(progression, other)

\* a tie: both roots occur twice and the key is the one seen first
C30_Witness ==
    /\ Called("analyzeChordProgression")
    /\ returned.progression = << <<"G", "7">>, <<"C">>, <<"C", "m">>, <<"G", "7">> >>
    /\ returned.key = Some(<<"G">>)

(***************************************************************************)
(* Chord sets, progression templates, export and import: the manager over  *)
(* a database that an earlier session left a chord and a chord set in.     *)
(***************************************************************************)
\* ChordStorage.getChordSet: the record with its times as Dates, or null
hydrateChordSet(record) ==
    [record EXCEPT !.createdAt = NewDate(record.createdAt),
                   !.updatedAt = NewDate(record.updatedAt)]

StorageGetChordSet(sets, id) ==
    IF MapHas(sets, id) THEN Some(hydrateChordSet(MapGet(sets, id))) ELSE None

\* ChordStorage.getAllChordSets
StorageGetAllChordSets(sets) == [i \in 1..Len(sets) |-> hydrateChordSet(sets[i])]

\* chordIds.splice(index, 1)
Splice(seq, index) ==
    SubSeq(seq, 1, index) \o SubSeq(seq, index + 2, Len(seq))

\* the ids of the chord sets named in the calls: the earlier set, the ids
\* uuidv4 may give, and one that no set has
ManagedSetIds == 0..(MaxIds + 1)

\* addChordToSet, from the chord set found: the chord set it returns and
\* whether it was saved
AddedToSet(chordSet, chordId, now) ==
    IF Includes(chordSet.chordIds, chordId)
    THEN [saved |-> FALSE, chordSet |-> chordSet]
    ELSE [saved |-> TRUE,
          chordSet |-> [chordSet EXCEPT !.chordIds = Append(@, chordId),
                                        !.updatedAt = now]]

\* addChordToSet(chordSetId, chordId)
AddChordToSet ==
    \E chordSetId \in ManagedSetIds, chordId \in ManagedIds :
        /\ chords' = EnsuredChords
        /\ LET found == StorageGetChordSet(storedSets, chordSetId)
               added == AddedToSet(found[1], chordId, Date(clock + 1))
           IN  IF found = None
               THEN /\ Ended("addChordToSet", <<chordSetId, chordId>>, "not found",
                             <<"getChordSet">>)
                    /\ UNCHANGED <<storedSets, clock>>
               ELSE IF ~added.saved
               THEN /\ Ended("addChordToSet", <<chordSetId, chordId>>, "ok",
                             <<"getChordSet">>)
                    /\ UNCHANGED <<storedSets, clock>>
               ELSE /\ clock < MaxClock
                    /\ storedSets' = StorePut(storedSets, ChordSetRecord(added.chordSet))
                    /\ clock' = clock + 1
                    /\ Ended("addChordToSet", <<chordSetId, chordId>>, "ok",
                             <<"getChordSet", "saveChordSet">>)
        /\ UNCHANGED <<stored, nextId>>

\* removeChordFromSet(chordSetId, chordId)
RemoveChordFromSet ==
    \E chordSetId \in ManagedSetIds, chordId \in ManagedIds :
        /\ chords' = EnsuredChords
        /\ LET found == StorageGetChordSet(storedSets, chordSetId)
               index == IndexOf(found[1].chordIds, chordId)
           IN  IF found = None
               THEN /\ Ended("removeChordFromSet", <<chordSetId, chordId>>, "not found",
                             <<"getChordSet">>)
                    /\ UNCHANGED <<storedSets, clock>>
               ELSE IF index = -1
               THEN /\ Ended("removeChordFromSet", <<chordSetId, chordId>>, "ok",
                             <<"getChordSet">>)
                    /\ UNCHANGED <<storedSets, clock>>
               ELSE /\ clock < MaxClock
                    /\ storedSets' =
                          StorePut(storedSets,
                              ChordSetRecord([found[1] EXCEPT
                                                 !.chordIds = Splice(@, index),
                                                 !.updatedAt = Date(clock + 1)]))
                    /\ clock' = clock + 1
                    /\ Ended("removeChordFromSet", <<chordSetId, chordId>>, "ok",
                             <<"getChordSet", "saveChordSet">>)
        /\ UNCHANGED <<stored, nextId>>

\* the progressions table of createProgressionSet, for a key
ProgressionNames == {"I-V-vi-IV", "ii-V-I"}

ProgressionChords(key, progressionName) ==
    IF progressionName = "I-V-vi-IV"
    THEN <<[root |-> key, quality |-> "major"],
           [root |-> transposeNote(key, 7), quality |-> "major"],
           [root |-> transposeNote(key, 9), quality |-> "minor"],
           [root |-> transposeNote(key, 5), quality |-> "major"]>>
    ELSE <<[root |-> transposeNote(key, 2), quality |-> "minor7"],
           [root |-> transposeNote(key, 7), quality |-> "dominant7"],
           [root |-> key, quality |-> "major7"]>>

\* the loop of createProgressionSet: addChord, then addChordToSet, for each
\* chord of the progression; db holds the map, the stores, the clock and
\* the next id
RECURSIVE AddProgressionChords(_, _, _)
AddProgressionChords(db, chordSetId, chordSpecs) ==
    IF chordSpecs = <<>> THEN db
    ELSE LET added == ServiceAddChord(db.chords, db.nextId, Head(chordSpecs).root,
                                      Head(chordSpecs).quality, Date(db.clock + 1))
             found == StorageGetChordSet(db.storedSets, chordSetId)
             inSet == AddedToSet(found[1], added.chord.id, Date(db.clock + 2))
         IN  AddProgressionChords(
                 [chords |-> added.chords,
                  stored |-> StorePut(db.stored, ChordRecord(added.chord)),
                  storedSets |-> StorePut(db.storedSets, ChordSetRecord(inSet.chordSet)),
                  clock |-> db.clock + 2,
                  nextId |-> db.nextId + 1,
                  calls |-> db.calls \o <<"saveChord", "getChordSet", "saveChordSet">>],
                 chordSetId, Tail(chordSpecs))

\* createProgressionSet(key, progressionName)
CreateProgressionSet ==
    \E key \in ManagedRoots, progressionName \in ProgressionNames \cup {"blues"} :
        IF progressionName \notin ProgressionNames
        THEN /\ chords' = EnsuredChords
             /\ Ended("createProgressionSet", <<key, progressionName>>,
                      "unknown progression", <<>>)
             /\ UNCHANGED <<stored, storedSets, clock, nextId>>
        ELSE /\ nextId <= MaxIds
             /\ clock < MaxClock
             /\ LET chordSet == [id |-> nextId, name |-> "set",
                                 description |-> Undefined, chordIds |-> <<>>,
                                 createdAt |-> Date(clock + 1),
                                 updatedAt |-> Date(clock + 1)]
                    db == AddProgressionChords(
                              [chords |-> EnsuredChords,
                               stored |-> stored,
                               storedSets |-> StorePut(storedSets, ChordSetRecord(chordSet)),
                               clock |-> clock + 1,
                               nextId |-> nextId + 1,
                               calls |-> <<"saveChordSet">>],
                              nextId, ProgressionChords(key, progressionName))
                IN  /\ chords' = db.chords
                    /\ stored' = db.stored
                    /\ storedSets' = db.storedSets
                    /\ clock' = db.clock
                    /\ nextId' = db.nextId
                    /\ Ended("createProgressionSet", <<key, progressionName>>, "ok",
                             db.calls)

\* clearAllData()
ClearAllData ==
    /\ chords' = <<>>
    /\ stored' = <<>>
    /\ storedSets' = <<>>
    /\ Ended("clearAllData", <<>>, "ok", <<"clearAllData">>)
    /\ UNCHANGED <<clock, nextId>>

\* JSON.stringify of an object with createdAt and updatedAt Dates, parsed
\* again: the times are the strings toJSON gives, which are toISOString's
Stringified(object) ==
    [object EXCEPT !.createdAt = toISOString(object.createdAt),
                   !.updatedAt = toISOString(object.updatedAt)]

\* ChordStorage.exportData, stringified
StorageExportData ==
    LET allChords == StorageGetAllChords(stored)
        allChordSets == StorageGetAllChordSets(storedSets)
    IN  [chords |-> Some([i \in 1..Len(allChords) |-> Stringified(allChords[i])]),
         chordSets |->
             Some([i \in 1..Len(allChordSets) |-> Stringified(allChordSets[i])])]

\* exportData()
ExportData ==
    /\ chords' = EnsuredChords
    /\ exported' = Some(StorageExportData)
    /\ lastCall' = [op |-> "exportData", args |-> <<>>, outcome |-> "ok",
                    storageCalls |-> EnsureCalls \o <<"getAllChords", "getAllChordSets">>]
    /\ initialized' = TRUE
    /\ UNCHANGED <<stored, storedSets, clock, nextId, pending,
                   phase, codecVars, pitchVars, detectVars, theoryVars>>

\* the chord set an earlier session left, empty or holding the earlier chord
EarlierChordSet(chordIds) ==
    [id |-> 0, name |-> "set", description |-> Undefined, chordIds |-> chordIds,
     createdAt |-> ISOString(0), updatedAt |-> ISOString(0)]

InitSets ==
    /\ initialized = FALSE
    /\ chords = <<>>
    /\ \/ stored = <<>> /\ storedSets \in {<<>>, <<EarlierChordSet(<<>>)>>}
       \/ /\ stored = <<EarlierChord>>
          /\ storedSets \in {<<>>, <<EarlierChordSet(<<>>)>>, <<EarlierChordSet(<<1>>)>>}
    /\ clock = 0
    /\ nextId = Len(stored) + 1
    /\ lastCall = NoCall
    /\ exported = None
    /\ pending = <<>>
    /\ phase = "input"
    /\ CodecIdle /\ PitchIdle /\ DetectIdle /\ TheoryIdle

NextSets ==
    \/ AddChord
    \/ UpdateChord
    \/ DeleteChord
    \/ TransposeChord
    \/ CreateChordSet
    \/ AddChordToSet
    \/ RemoveChordFromSet
    \/ CreateProgressionSet
    \/ ClearAllData

SpecSets == InitSets /\ [][NextSets]_vars

\* export and import, after the calls that fill the database
NextExport ==
    \/ AddChord
    \/ CreateChordSet
    \/ AddChordToSet
    \/ ExportData
    \/ ImportData

SpecExport == InitSets /\ [][NextExport]_vars

\* C24 as stated: an importData of the JSON that the exportData just before
\* it returned succeeds, and the stored chords (id, root, quality) and the
\* stored chord sets (id, name, chordIds) are after it what they were
\* before it.
C24_AsStated ==
    [][(lastCall.op = "exportData" /\ CallOf("importData")
            /\ lastCall'.args = <<exported>>) =>
          /\ lastCall'.outcome = "ok"
          /\ [i \in 1..Len(stored') |->
                 <<stored'[i].id, stored'[i].root, stored'[i].quality>>]
               = [i \in 1..Len(stored) |->
                     <<stored[i].id, stored[i].root, stored[i].quality>>]
          /\ [i \in 1..Len(storedSets') |->
                 <<storedSets'[i].id, storedSets'[i].name, storedSets'[i].chordIds>>]
               = [i \in 1..Len(storedSets) |->
                     <<storedSets[i].id, storedSets[i].name, storedSets[i].chordIds>>]]_vars

\* C25 as stated: after any sequence of calls of addChord, updateChord,
\* deleteChord, transposeChord, addChordToSet, removeChordFromSet,
\* createProgressionSet and clearAllData, every chord id in the chordIds of
\* a stored chord set is the id of a stored chord.
C25_AsStated ==
    \A i \in 1..Len(storedSets) :
        Range(storedSets[i].chordIds) \subseteq Ids(stored)

(***************************************************************************)
(* Concurrent calls of the manager.  An async method runs from one await   *)
(* to the next without interruption, so a step is the piece of a call      *)
(* between two awaits; a request to the database takes effect when it is   *)
(* issued (transactions run in the order they are created), and the call   *)
(* goes on in a later step.  The requests succeed.                         *)
(***************************************************************************)
\* the arguments of the calls that may be in flight together
ConcurrentArgs(op) ==
    IF op = "addChord" THEN ManagedRoots \X ManagedQualities
    ELSE IF op = "deleteChord" THEN {<<1>>}
    ELSE {0, MaxIds + 1} \X (1..2)

\* the call's position: "init" awaits storage.init(), "loading" awaits
\* getAllChords(), "ensured" awaits ensureInitialized(), "found" awaits
\* getChordSet(); "returned" and "thrown" end it.  read is what the await
\* gave the call, and for an addChord that returned, the id of its chord
At(i, pc) == i \in 1..Len(pending) /\ pending[i].pc = pc

Moved(i, pc, read) ==
    /\ pending' = [pending EXCEPT ![i] = [@ EXCEPT !.pc = pc, !.read = read]]
    /\ UNCHANGED <<lastCall, exported, phase, codecVars, pitchVars, detectVars,
                   theoryVars>>

\* the call starts: ensureInitialized tests initialized, and init() calls
\* storage.init()
Invoke ==
    \E op \in {"addChord", "deleteChord", "addChordToSet"} :
      \E callArgs \in ConcurrentArgs(op) :
        /\ Len(pending) < MaxCalls
        /\ pending' = Append(pending,
                             [op |-> op, args |-> callArgs,
                              pc |-> IF initialized THEN "ensured" ELSE "init",
                              read |-> <<>>])
        /\ UNCHANGED <<initialized, chords, stored, storedSets, clock, nextId,
                       lastCall, exported, phase, codecVars, pitchVars, detectVars,
                       theoryVars>>

\* init(): storage.init() is done, loadChordsFromStorage asks for the chords
ReadChords ==
    \E i \in 1..Len(pending) :
        /\ At(i, "init")
        /\ Moved(i, "loading", StorageGetAllChords(stored))
        /\ UNCHANGED <<initialized, chords, stored, storedSets, clock, nextId>>

\* loadChordsFromStorage: clear(), setChord for each chord read; then
\* init() sets initialized
LoadChords ==
    \E i \in 1..Len(pending) :
        /\ At(i, "loading")
        /\ chords' = pending[i].read
        /\ initialized' = TRUE
        /\ Moved(i, "ensured", <<>>)
        /\ UNCHANGED <<stored, storedSets, clock, nextId>>

\* addChord after ensureInitialized
ServeAddChord ==
    \E i \in 1..Len(pending) :
        /\ At(i, "ensured")
        /\ pending[i].op = "addChord"
        /\ nextId <= MaxIds
        /\ clock < MaxClock
        /\ LET added == ServiceAddChord(chords, nextId, pending[i].args[1],
                                        pending[i].args[2], Date(clock + 1))
           IN  /\ chords' = added.chords
               /\ stored' = StorePut(stored, ChordRecord(added.chord))
        /\ nextId' = nextId + 1
        /\ clock' = clock + 1
        /\ Moved(i, "returned", <<nextId>>)
        /\ UNCHANGED <<initialized, storedSets>>

\* deleteChord after ensureInitialized
ServeDeleteChord ==
    \E i \in 1..Len(pending) :
        /\ At(i, "ensured")
        /\ pending[i].op = "deleteChord"
        /\ LET deleted == ServiceDeleteChord(chords, pending[i].args[1])
           IN  /\ chords' = deleted.chords
               /\ stored' = IF deleted.success
                            THEN StoreDelete(stored, pending[i].args[1])
                            ELSE stored
        /\ Moved(i, "returned", <<>>)
        /\ UNCHANGED <<initialized, storedSets, clock, nextId>>

\* addChordToSet after ensureInitialized: it asks for the chord set
FindChordSet ==
    \E i \in 1..Len(pending) :
        /\ At(i, "ensured")
        /\ pending[i].op = "addChordToSet"
        /\ Moved(i, "found", StorageGetChordSet(storedSets, pending[i].args[1]))
        /\ UNCHANGED <<initialized, chords, stored, storedSets, clock, nextId>>

\* addChordToSet with the chord set it asked for
PushChordId ==
    \E i \in 1..Len(pending) :
        /\ At(i, "found")
        /\ LET found == pending[i].read
               added == AddedToSet(found[1], pending[i].args[2], Date(clock + 1))
           IN  IF found = None
               THEN /\ Moved(i, "thrown", <<>>)
                    /\ UNCHANGED <<storedSets, clock>>
               ELSE IF ~added.saved
               THEN /\ Moved(i, "returned", <<>>)
                    /\ UNCHANGED <<storedSets, clock>>
               ELSE /\ clock < MaxClock
                    /\ storedSets' = StorePut(storedSets, ChordSetRecord(added.chordSet))
                    /\ clock' = clock + 1
                    /\ Moved(i, "returned", <<>>)
        /\ UNCHANGED <<initialized, chords, stored, nextId>>

\* the manager when the calls start: not initialized, or initialized by an
\* earlier call, over a database an earlier session may have written
InitConcurrent ==
    /\ \/ stored = <<>> /\ storedSets \in {<<>>, <<EarlierChordSet(<<>>)>>}
       \/ /\ stored = <<EarlierChord>>
          /\ storedSets \in {<<>>, <<EarlierChordSet(<<>>)>>, <<EarlierChordSet(<<1>>)>>}
    /\ initialized \in BOOLEAN
    /\ chords = IF initialized THEN StorageGetAllChords(stored) ELSE <<>>
    /\ clock = 0
    /\ nextId = Len(stored) + 1
    /\ lastCall = NoCall
    /\ exported = None
    /\ pending = <<>>
    /\ phase = "input"
    /\ CodecIdle /\ PitchIdle /\ DetectIdle /\ TheoryIdle

NextConcurrent ==
    \/ Invoke
    \/ ReadChords
    \/ LoadChords
    \/ ServeAddChord
    \/ ServeDeleteChord
    \/ FindChordSet
    \/ PushChordId

SpecConcurrent == InitConcurrent /\ [][NextConcurrent]_vars

\* every call that started has ended
AllEnded ==
    \A i \in 1..Len(pending) : pending[i].pc \in {"returned", "thrown"}

\* C23 as stated: when concurrently started calls of the manager on
\* different chords, first calls that initialize the manager included, have
\* all ended, the chords of the map in memory are the chords of the
\* database.
C23_AsStated ==
    (/\ Len(pending) = MaxCalls
     /\ AllEnded
     /\ \A i, j \in 1..Len(pending) :
           (i # j /\ pending[i].op = "deleteChord") =>
               /\ pending[j].op # "deleteChord"
               /\ pending[j].read # pending[i].args)
        => Range(chords) = Range(StorageGetAllChords(stored))

\* the chord ids of the stored chord set with the id
StoredChordIds(chordSetId) == MapGet(storedSets, chordSetId).chordIds

\* C26 as stated: when two concurrent calls of addChordToSet for different
\* chords and the same chord set have ended, the stored chord set holds the
\* ids of both chords; and in every state no chord id occurs twice in the
\* chordIds of a stored chord set.
C26_AsStated ==
    /\ \A i \in 1..Len(storedSets) :
          \A j, k \in 1..Len(storedSets[i].chordIds) :
              storedSets[i].chordIds[j] = storedSets[i].chordIds[k] => j = k
    /\ \A i, j \in 1..Len(pending) :
          (/\ pending[i].op = "addChordToSet" /\ pending[i].pc = "returned"
           /\ pending[j].op = "addChordToSet" /\ pending[j].pc = "returned"
           /\ pending[i].args[1] = pending[j].args[1]
           /\ pending[i].args[2] # pending[j].args[2])
              => {pending[i].args[2], pending[j].args[2]}
                     \subseteq Range(StoredChordIds(pending[i].args[1]))

=============================================================================
